---- MODULE Spec2Model ----
(***************************************************************************)
(* firestick-minder: the per-device idle state machine                     *)
(* (firestick_minder.py: IdleState, update_idle_state, main_loop) and the  *)
(* configuration resolution that feeds it (config.py: _build_config and    *)
(* its helpers).                                                           *)
(*                                                                         *)
(* Three specifications share the variables:                               *)
(*   Spec        the polling loop of main_loop over a resolved device list *)
(*   SpecAdvance direct calls of update_idle_state on one IdleState, with  *)
(*               arbitrary arguments (as tests/test_idle_fsm.py does)      *)
(*   SpecConfig  load_config over an environment built by setenv calls and *)
(*               an optional YAML mapping                                  *)
(***************************************************************************)
EXTENDS Integers, Sequences, FiniteSets, TLC

\* ------------------------------------------------------------------------
\* Bounds of the model
\* ------------------------------------------------------------------------

\* poll intervals range over 1..MaxPoll
MaxPoll == 2
\* configured timeouts range over 1..MaxTimeout (or are absent)
MaxTimeout == 3
\* the idle_seconds an IdleState is constructed with in a direct call: 0..MaxIdle
MaxIdle == 3

\* ------------------------------------------------------------------------
\* Optional values
\* ------------------------------------------------------------------------

\* Optional[float] timeout: the empty set is None, {t} is the number t.
Timeouts == {{}} \cup {{t} : t \in 1..MaxTimeout}

\* Optional[str] foreground package: this value is None.
NoPackage == "<None>"

\* ------------------------------------------------------------------------
\* Variables
\* ------------------------------------------------------------------------

VARIABLES
    mode,            \* which program runs: "loop", "advance" or "config"
    devices,         \* config["devices"]: the resolved device list
    poll_interval,   \* config["poll_interval_seconds"]
    idle_timeout,    \* config["idle_timeout_seconds"] (Optional)
    heap,            \* the IdleState objects, by reference: heap[r] is r.idle_seconds
    device_runtime,  \* main_loop's Dict[str, IdleState]: name -> reference
    pc,              \* position of main_loop
    idx,             \* position of `for device in devices` (1-based)
    tick_launch,     \* per device position: should_launch of its latest tick
    last_launch,     \* per IdleState: should_launch of the latest call on it
    call,            \* the latest update_idle_state invocation (history)
    twin,            \* the same invocation repeated on an equal IdleState
    env,             \* os.environ: the (key, value) pairs in enumeration order
    file,            \* what the file system holds at the configuration path
    result,          \* what load_config returned or raised
    mqtt_client,     \* main_loop's mqtt_client_wrapper: None, or its .client
    timing,          \* the tick's elapsed time and the latest time.sleep
    exit_status,     \* how the process ended, "running" until then
    published,       \* the snapshots handed to client.publish in this tick
    trace,           \* the passes of this tick: what was observed and decided
    obs,             \* what adb returned in the latest pass
    streak           \* per device position: its idle-eligible ticks in a row

\* the variables of configuration loading
cvars == <<env, file, result>>

\* the variables of the process around the polling loop
dvars == <<mqtt_client, timing, exit_status, published, trace, obs, streak>>

vars == <<mode, devices, poll_interval, idle_timeout, heap, device_runtime,
          pc, idx, tick_launch, last_launch, call, twin, env, file, result,
          mqtt_client, timing, exit_status, published, trace, obs, streak>>

\* The values of the process variables where the process is not modelled.
NoTiming == [elapsed |-> 0, measured |-> 0, slept |-> 0, after |-> "start", interval |-> 0]
NoObs == [valid |-> FALSE]
NoTrace == [heap |-> <<>>, device_runtime |-> <<>>, passes |-> <<>>]
NoProcess ==
    /\ mqtt_client = "disabled"
    /\ timing = NoTiming
    /\ exit_status = "running"
    /\ published = <<>>
    /\ trace = NoTrace
    /\ obs = NoObs
    /\ streak = <<>>

\* The loop and the direct calls run after (or without) configuration loading.
NoConfigLoading ==
    /\ env = <<>>
    /\ file = [kind |-> "missing", parses |-> TRUE, doc |-> [t |-> "none", i |-> 0, s |-> "", l |-> <<>>]]
    /\ result = [done |-> FALSE]

\* ------------------------------------------------------------------------
\* IDLE FSM (firestick_minder.py)
\* ------------------------------------------------------------------------

\* IdleState(): a new object with idle_seconds = 0.0, appended to the heap.
IdleState(h) == [heap |-> Append(h, 0), ref |-> Len(h) + 1]

\* Variants of update_idle_state, each with one slip, used to show that the
\* properties below depend on the code.
\* (a) an ineligible tick keeps the accumulated value instead of resetting it
update_idle_state_keep(h, state, home_screen, in_target_app, media_playing, poll, timeout) ==
    LET idle_eligible == home_screen /\ ~media_playing /\ ~in_target_app
        h1 == [h EXCEPT ![state] = IF idle_eligible THEN h[state] + poll ELSE h[state]]
        effective_timeout == IF timeout = {} THEN 0 ELSE CHOOSE t \in timeout : TRUE
        should_launch == idle_eligible /\ h1[state] >= effective_timeout /\ ~in_target_app
        h2 == IF should_launch THEN [h1 EXCEPT ![state] = 0] ELSE h1
    IN  [heap |-> h2, state |-> state,
         should_launch |-> should_launch, idle_eligible |-> idle_eligible]

\* (b) media playback is left out of the launch decision
update_idle_state_media(h, state, home_screen, in_target_app, media_playing, poll, timeout) ==
    LET idle_eligible == home_screen /\ ~media_playing /\ ~in_target_app
        h1 == [h EXCEPT ![state] = IF idle_eligible THEN h[state] + poll ELSE 0]
        effective_timeout == IF timeout = {} THEN 0 ELSE CHOOSE t \in timeout : TRUE
        should_launch == home_screen /\ h1[state] >= effective_timeout /\ ~in_target_app
        h2 == IF should_launch THEN [h1 EXCEPT ![state] = 0] ELSE h1
    IN  [heap |-> h2, state |-> state,
         should_launch |-> should_launch, idle_eligible |-> idle_eligible]

\* (c) the timeout is compared with > instead of >=
update_idle_state_gt(h, state, home_screen, in_target_app, media_playing, poll, timeout) ==
    LET idle_eligible == home_screen /\ ~media_playing /\ ~in_target_app
        h1 == [h EXCEPT ![state] = IF idle_eligible THEN h[state] + poll ELSE 0]
        effective_timeout == IF timeout = {} THEN 0 ELSE CHOOSE t \in timeout : TRUE
        should_launch == idle_eligible /\ h1[state] > effective_timeout /\ ~in_target_app
        h2 == IF should_launch THEN [h1 EXCEPT ![state] = 0] ELSE h1
    IN  [heap |-> h2, state |-> state,
         should_launch |-> should_launch, idle_eligible |-> idle_eligible]

\* (d) an absent timeout disables the launch instead of making it immediate
update_idle_state_none(h, state, home_screen, in_target_app, media_playing, poll, timeout) ==
    LET idle_eligible == home_screen /\ ~media_playing /\ ~in_target_app
        h1 == [h EXCEPT ![state] = IF idle_eligible THEN h[state] + poll ELSE 0]
        effective_timeout == IF timeout = {} THEN 0 ELSE CHOOSE t \in timeout : TRUE
        should_launch == /\ timeout # {}
                         /\ idle_eligible /\ h1[state] >= effective_timeout /\ ~in_target_app
        h2 == IF should_launch THEN [h1 EXCEPT ![state] = 0] ELSE h1
    IN  [heap |-> h2, state |-> state,
         should_launch |-> should_launch, idle_eligible |-> idle_eligible]

\* (e) the counter is not reset when a launch is decided
update_idle_state_noreset(h, state, home_screen, in_target_app, media_playing, poll, timeout) ==
    LET idle_eligible == home_screen /\ ~media_playing /\ ~in_target_app
        h1 == [h EXCEPT ![state] = IF idle_eligible THEN h[state] + poll ELSE 0]
        effective_timeout == IF timeout = {} THEN 0 ELSE CHOOSE t \in timeout : TRUE
        should_launch == idle_eligible /\ h1[state] >= effective_timeout /\ ~in_target_app
    IN  [heap |-> h1, state |-> state,
         should_launch |-> should_launch, idle_eligible |-> idle_eligible]

\* (f) the launch resets the counter to the poll interval instead of 0
update_idle_state_carry(h, state, home_screen, in_target_app, media_playing, poll, timeout) ==
    LET idle_eligible == home_screen /\ ~media_playing /\ ~in_target_app
        h1 == [h EXCEPT ![state] = IF idle_eligible THEN h[state] + poll ELSE 0]
        effective_timeout == IF timeout = {} THEN 0 ELSE CHOOSE t \in timeout : TRUE
        should_launch == idle_eligible /\ h1[state] >= effective_timeout /\ ~in_target_app
        h2 == IF should_launch THEN [h1 EXCEPT ![state] = poll] ELSE h1
    IN  [heap |-> h2, state |-> state,
         should_launch |-> should_launch, idle_eligible |-> idle_eligible]

\* (g) idle_seconds is shared by all IdleState objects (a class-level counter)
update_idle_state_shared(h, state, home_screen, in_target_app, media_playing, poll, timeout) ==
    LET idle_eligible == home_screen /\ ~media_playing /\ ~in_target_app
        h1 == [i \in DOMAIN h |-> IF idle_eligible THEN h[i] + poll ELSE 0]
        effective_timeout == IF timeout = {} THEN 0 ELSE CHOOSE t \in timeout : TRUE
        should_launch == idle_eligible /\ h1[state] >= effective_timeout /\ ~in_target_app
        h2 == IF should_launch THEN [i \in DOMAIN h |-> 0] ELSE h1
    IN  [heap |-> h2, state |-> state,
         should_launch |-> should_launch, idle_eligible |-> idle_eligible]

\* (h) the timeout is compared with idle_seconds as it was before the call
update_idle_state_stale(h, state, home_screen, in_target_app, media_playing, poll, timeout) ==
    LET idle_eligible == home_screen /\ ~media_playing /\ ~in_target_app
        h1 == [h EXCEPT ![state] = IF idle_eligible THEN h[state] + poll ELSE 0]
        effective_timeout == IF timeout = {} THEN 0 ELSE CHOOSE t \in timeout : TRUE
        should_launch == idle_eligible /\ h[state] >= effective_timeout /\ ~in_target_app
        h2 == IF should_launch THEN [h1 EXCEPT ![state] = 0] ELSE h1
    IN  [heap |-> h2, state |-> state,
         should_launch |-> should_launch, idle_eligible |-> idle_eligible]

\* update_idle_state: mutates the IdleState `state` (a reference into heap h)
\* in place and returns (state, should_launch, idle_eligible).
update_idle_state(h, state, home_screen, in_target_app, media_playing, poll, timeout) ==
    LET idle_eligible == home_screen /\ ~media_playing /\ ~in_target_app
        h1 == [h EXCEPT ![state] = IF idle_eligible THEN h[state] + poll ELSE 0]
        effective_timeout == IF timeout = {} THEN 0 ELSE CHOOSE t \in timeout : TRUE
        should_launch == idle_eligible /\ h1[state] >= effective_timeout /\ ~in_target_app
        h2 == IF should_launch THEN [h1 EXCEPT ![state] = 0] ELSE h1
    IN  [heap |-> h2,
         state |-> state,
         should_launch |-> should_launch,
         idle_eligible |-> idle_eligible]

\* ------------------------------------------------------------------------
\* ADB HELPERS (firestick_minder.py)
\* ------------------------------------------------------------------------

\* Package names seen in the focus dumps.
Launcher == "com.amazon.tv.launcher"
TargetPkg == "com.example.app"
OtherPkg == "com.netflix.ninja"
Packages == {Launcher, TargetPkg, OtherPkg}

\* What adb() returns for a dump: None on TimeoutExpired (timed_out), else a
\* CompletedProcess, abstracted to its return code, whether stdout+stderr
\* holds "unauthorized", the package the focus regex captures (NoPackage when
\* it does not match) and whether stdout holds "state=3".
AdbTimedOut == [timed_out |-> TRUE, returncode |-> 1, unauthorized |-> FALSE,
                focus |-> NoPackage, playing |-> FALSE]
AdbUnauthorized == [timed_out |-> FALSE, returncode |-> 0, unauthorized |-> TRUE,
                    focus |-> Launcher, playing |-> TRUE]
AdbFailed == [timed_out |-> FALSE, returncode |-> 1, unauthorized |-> FALSE,
              focus |-> Launcher, playing |-> TRUE]
AdbOk(focus, playing) == [timed_out |-> FALSE, returncode |-> 0, unauthorized |-> FALSE,
                          focus |-> focus, playing |-> playing]
FocusDumps == {AdbTimedOut, AdbUnauthorized, AdbFailed} \cup
    {AdbOk(p, FALSE) : p \in Packages \cup {NoPackage}}
MediaDumps == {AdbTimedOut, AdbUnauthorized, AdbFailed} \cup
    {AdbOk(NoPackage, b) : b \in BOOLEAN}

\* _check_unauthorized: "unauthorized" in (stdout + stderr).lower()
check_unauthorized(proc) == proc.unauthorized

\* get_foreground_package: the window dump, then the activity dump as fallback.
\* get_foreground_package trusting the window dump whatever its return code
\* and markers
get_foreground_package_unchecked(win, act) ==
    IF win.timed_out THEN NoPackage
    ELSE IF win.focus # NoPackage THEN win.focus
    ELSE IF act.timed_out THEN NoPackage
    ELSE IF act.focus # NoPackage THEN act.focus
    ELSE NoPackage

get_foreground_package(win, act) ==
    IF win.timed_out THEN NoPackage
    ELSE IF check_unauthorized(win) THEN NoPackage
    ELSE IF win.returncode # 0 THEN NoPackage
    ELSE IF win.focus # NoPackage THEN win.focus
    ELSE IF act.timed_out THEN NoPackage
    ELSE IF check_unauthorized(act) THEN NoPackage
    ELSE IF act.returncode = 0 /\ act.focus # NoPackage THEN act.focus
    ELSE NoPackage

\* The activity dump is only run when the window dump was read and matched nothing.
NeedsFallback(win) ==
    /\ ~win.timed_out
    /\ ~check_unauthorized(win)
    /\ win.returncode = 0
    /\ win.focus = NoPackage

\* is_media_playing: "state=3" in the media_session dump.
is_media_playing(proc) ==
    IF proc.timed_out THEN FALSE
    ELSE IF check_unauthorized(proc) THEN FALSE
    ELSE IF proc.returncode # 0 THEN FALSE
    ELSE proc.playing

\* ensure_connected: `adb get-state`, then `adb connect`.  get_state is
\* "timeout", "ok" (rc 0 and stdout one of device/unknown/offline) or "no";
\* connect is "timeout", "connected" ("connected" in the output) or "failed".
GetStates == {"timeout", "ok", "no"}
Connects == {"timeout", "connected", "failed"}
ensure_connected(get_state, connect) ==
    IF get_state = "timeout" THEN FALSE
    ELSE IF get_state = "ok" THEN TRUE
    ELSE IF connect = "timeout" THEN FALSE
    ELSE connect = "connected"

\* Component strings of the model and str.split("/") on them.
TargetComponent == "com.example.app/.MainActivity"
SplitSlash(comp) ==
    IF comp = TargetComponent THEN <<TargetPkg, ".MainActivity">> ELSE <<comp>>

\* launch_slideshow: `am start -n comp` when "/" in comp, else `monkey -p comp`.
launch_slideshow(device) ==
    IF Len(SplitSlash(device.slideshow_component)) > 1
    THEN <<"am start -n", device.slideshow_component>>
    ELSE <<"monkey -p", device.slideshow_component>>

NoLaunch == <<"none", "">>

\* ------------------------------------------------------------------------
\* MAIN LOOP (firestick_minder.py: main_loop)
\* ------------------------------------------------------------------------

\* Device lists that resolution produces (_normalize_device's records).  The
\* third holds two devices of one name: no step of resolution rejects it.
DevLR == [name |-> "LR", host |-> "192.168.30.51", home_packages |-> {Launcher},
          slideshow_component |-> TargetComponent, adb_port |-> 5555]
DevBR == [name |-> "BR", host |-> "192.168.30.52", home_packages |-> {Launcher},
          slideshow_component |-> TargetPkg, adb_port |-> 5555]
DevLR2 == [name |-> "LR", host |-> "192.168.30.53", home_packages |-> {Launcher},
           slideshow_component |-> TargetPkg, adb_port |-> 5555]
DeviceLists == {<<DevLR>>, <<DevLR, DevBR>>, <<DevLR, DevLR2>>}

\* The value of `call` before any update_idle_state invocation.
NoCall == [valid |-> FALSE, dev |-> 0, state |-> 0, ret |-> 0,
           in_idle |-> 0, out_idle |-> 0, arg_idle |-> 0,
           foreground |-> NoPackage,
           home_screen |-> FALSE, in_target_app |-> FALSE, media_playing |-> FALSE,
           poll |-> 1, timeout |-> {},
           should_launch |-> FALSE, idle_eligible |-> FALSE,
           prev_launch |-> FALSE, prev_tick_launch |-> FALSE,
           launch |-> NoLaunch]

\* main_loop up to `while True`: the configuration is read, no IdleState exists.
InitLoop ==
    /\ mode = "loop"
    /\ devices \in DeviceLists
    /\ poll_interval \in 1..MaxPoll
    /\ idle_timeout \in Timeouts
    /\ heap = <<>>
    /\ last_launch = <<>>
    /\ device_runtime = [n \in {} |-> 0]
    /\ pc = "for"
    /\ idx = 1
    /\ tick_launch = [i \in 1..Len(devices) |-> FALSE]
    /\ call = NoCall
    /\ twin = NoCall
    /\ NoConfigLoading
    /\ NoProcess

\* device_runtime.setdefault(name, IdleState())
setdefault(rt, h, name) ==
    IF name \in DOMAIN rt
    THEN [runtime |-> rt, heap |-> h, ref |-> rt[name]]
    ELSE [runtime |-> rt @@ (name :> IdleState(h).ref),
          heap |-> IdleState(h).heap,
          ref |-> IdleState(h).ref]

\* The pass for a device that ensure_connected rejects, leaving the for loop
\* (`break`) instead of going on with the next device.
DeviceNotConnected_break(get_state, connect) ==
    /\ mode = "loop" /\ pc = "for" /\ idx <= Len(devices)
    /\ ~ensure_connected(get_state, connect)
    /\ \E sd \in {setdefault(device_runtime, heap, devices[idx].name)} :
          /\ device_runtime' = sd.runtime
          /\ heap' = sd.heap
          /\ last_launch' = IF Len(sd.heap) > Len(heap)
                             THEN Append(last_launch, FALSE) ELSE last_launch
    /\ tick_launch' = [tick_launch EXCEPT ![idx] = FALSE]
    /\ idx' = Len(devices) + 1
    /\ UNCHANGED <<mode, devices, poll_interval, idle_timeout, pc, call, twin, cvars, dvars>>

\* One pass of the for loop for a device that ensure_connected rejects:
\* its IdleState is created if missing, then `continue`.
DeviceNotConnected(get_state, connect) ==
    /\ mode = "loop" /\ pc = "for" /\ idx <= Len(devices)
    /\ ~ensure_connected(get_state, connect)
    /\ \E sd \in {setdefault(device_runtime, heap, devices[idx].name)} :
          /\ device_runtime' = sd.runtime
          /\ heap' = sd.heap
          /\ last_launch' = IF Len(sd.heap) > Len(heap)
                             THEN Append(last_launch, FALSE) ELSE last_launch
    /\ tick_launch' = [tick_launch EXCEPT ![idx] = FALSE]
    /\ idx' = idx + 1
    /\ UNCHANGED <<mode, devices, poll_interval, idle_timeout, pc, call, twin, cvars, dvars>>

\* One pass of the for loop for a connected device: the two status queries,
\* update_idle_state, and the launch when it is decided.
ProcessDevice(get_state, connect, win, act, media) ==
    /\ mode = "loop" /\ pc = "for" /\ idx <= Len(devices)
    /\ ensure_connected(get_state, connect)
    /\ LET device == devices[idx]
           foreground_pkg == get_foreground_package(win, act)
           media_playing == is_media_playing(media)
           slideshow_pkg == SplitSlash(device.slideshow_component)[1]
           home_screen == foreground_pkg \in device.home_packages
           in_target_app == foreground_pkg = slideshow_pkg
           timeout == IF idle_timeout # {} THEN idle_timeout ELSE {}
           known == device.name \in DOMAIN device_runtime
       IN  \E sd \in {setdefault(device_runtime, heap, device.name)} :
           \E r \in {update_idle_state(sd.heap, sd.ref, home_screen, in_target_app,
                                       media_playing, poll_interval, timeout)} :
              /\ device_runtime' = sd.runtime
              /\ heap' = r.heap
              /\ last_launch' =
                     IF known THEN [last_launch EXCEPT ![sd.ref] = r.should_launch]
                     ELSE Append(last_launch, r.should_launch)
              /\ tick_launch' = [tick_launch EXCEPT ![idx] = r.should_launch]
              /\ call' = [valid |-> TRUE, dev |-> idx, state |-> sd.ref, ret |-> r.state,
                          in_idle |-> sd.heap[sd.ref],
                          out_idle |-> r.heap[r.state],
                          arg_idle |-> r.heap[sd.ref],
                          foreground |-> foreground_pkg,
                          home_screen |-> home_screen,
                          in_target_app |-> in_target_app,
                          media_playing |-> media_playing,
                          poll |-> poll_interval, timeout |-> timeout,
                          should_launch |-> r.should_launch,
                          idle_eligible |-> r.idle_eligible,
                          prev_launch |-> IF known THEN last_launch[sd.ref] ELSE FALSE,
                          prev_tick_launch |-> tick_launch[idx],
                          launch |-> IF r.should_launch
                                     THEN launch_slideshow(device) ELSE NoLaunch]
    /\ idx' = idx + 1
    /\ UNCHANGED <<mode, devices, poll_interval, idle_timeout, pc, twin, cvars, dvars>>

\* The for loop is exhausted: elapsed is measured and the loop sleeps.
EndFor ==
    /\ mode = "loop" /\ pc = "for" /\ idx > Len(devices)
    /\ pc' = "sleep"
    /\ UNCHANGED <<mode, devices, poll_interval, idle_timeout, heap, last_launch,
                   device_runtime, idx, tick_launch, call, twin, cvars, dvars>>

\* time.sleep returns: the next pass of `while True` starts.
Sleep ==
    /\ mode = "loop" /\ pc = "sleep"
    /\ pc' = "for"
    /\ idx' = 1
    /\ UNCHANGED <<mode, devices, poll_interval, idle_timeout, heap, last_launch,
                   device_runtime, tick_launch, call, twin, cvars, dvars>>

NextLoop ==
    \/ \E gs \in GetStates :
          \E cn \in (IF gs = "no" THEN Connects ELSE {"failed"}) :
             DeviceNotConnected(gs, cn)
    \/ \E gs \in GetStates, win \in FocusDumps, media \in MediaDumps :
          \E cn \in (IF gs = "no" THEN Connects ELSE {"failed"}) :
             \E act \in (IF NeedsFallback(win) THEN FocusDumps ELSE {AdbTimedOut}) :
                ProcessDevice(gs, cn, win, act, media)
    \/ EndFor
    \/ Sleep

Spec == InitLoop /\ [][NextLoop]_vars

\* ------------------------------------------------------------------------
\* Direct calls of update_idle_state (tests/test_idle_fsm.py)
\* ------------------------------------------------------------------------

\* Two IdleState objects constructed with the same idle_seconds: reference 1
\* receives the sequence of calls, reference 2 is rebuilt before each call
\* with the value reference 1 had and receives the same call afterwards.
InitAdvance ==
    /\ mode = "advance"
    /\ devices = <<>>
    /\ poll_interval = 1
    /\ idle_timeout = {}
    /\ \E s \in 0..MaxIdle : heap = <<s, s>>
    /\ last_launch = <<FALSE, FALSE>>
    /\ device_runtime = [n \in {} |-> 0]
    /\ pc = "call"
    /\ idx = 1
    /\ tick_launch = <<>>
    /\ call = NoCall
    /\ twin = NoCall
    /\ NoConfigLoading
    /\ NoProcess

\* The record of one invocation on reference `ref` of heap h, with result r.
CallRecord(h, ref, r, home_screen, in_target_app, media_playing, poll, timeout, prev) ==
    [valid |-> TRUE, dev |-> 0, state |-> ref, ret |-> r.state,
     in_idle |-> h[ref], out_idle |-> r.heap[r.state], arg_idle |-> r.heap[ref],
     foreground |-> NoPackage,
     home_screen |-> home_screen, in_target_app |-> in_target_app,
     media_playing |-> media_playing,
     poll |-> poll, timeout |-> timeout,
     should_launch |-> r.should_launch, idle_eligible |-> r.idle_eligible,
     prev_launch |-> prev, prev_tick_launch |-> prev,
     launch |-> NoLaunch]

Advance(home_screen, in_target_app, media_playing, poll, timeout) ==
    /\ mode = "advance"
    /\ \E r1 \in {update_idle_state(heap, 1, home_screen, in_target_app,
                                     media_playing, poll, timeout)} :
       \E h2 \in {[r1.heap EXCEPT ![2] = heap[1]]} :
       \E r2 \in {update_idle_state(h2, 2, home_screen, in_target_app,
                                     media_playing, poll, timeout)} :
           /\ heap' = r2.heap
           /\ call' = CallRecord(heap, 1, r1, home_screen, in_target_app,
                                 media_playing, poll, timeout, last_launch[1])
           /\ twin' = CallRecord(h2, 2, r2, home_screen, in_target_app,
                                 media_playing, poll, timeout, last_launch[2])
           /\ last_launch' = <<r1.should_launch, r2.should_launch>>
    /\ UNCHANGED <<mode, devices, poll_interval, idle_timeout, device_runtime,
                   pc, idx, tick_launch, cvars, dvars>>

NextAdvance ==
    \E home_screen \in BOOLEAN, in_target_app \in BOOLEAN, media_playing \in BOOLEAN,
       poll \in 1..MaxPoll, timeout \in Timeouts :
          Advance(home_screen, in_target_app, media_playing, poll, timeout)

SpecAdvance == InitAdvance /\ [][NextAdvance]_vars

\* ------------------------------------------------------------------------
\* Properties of the idle FSM
\* ------------------------------------------------------------------------

\* effective_timeout of update_idle_state, for the recorded argument
EffectiveTimeout(timeout) == IF timeout = {} THEN 0 ELSE CHOOSE t \in timeout : TRUE

\* C1: over every sequence of update_idle_state calls, idle_seconds is never
\* negative, and the state a call returns is exactly 0 whenever the call's
\* idle_eligible is false or its should_launch is true (an ineligible call
\* discards all accumulated progress).
C1_IdleNonNegativeResets ==
    /\ \A r \in DOMAIN heap : heap[r] >= 0
    /\ call.valid =>
          /\ call.out_idle >= 0
          /\ (~call.idle_eligible \/ call.should_launch) => call.out_idle = 0
          /\ heap[call.state] = call.out_idle

\* C1 witness: an ineligible call on a state with accumulated progress.
C1_Witness ==
    call.valid /\ ~call.idle_eligible /\ call.in_idle > 0 /\ call.out_idle = 0

\* C2: should_launch is true only on a call where home_screen is true,
\* media_playing is false and in_target_app is false, whatever the
\* accumulated idle_seconds and the timeout.
C2_LaunchOnlyWhenEligible ==
    (call.valid /\ call.should_launch) =>
        call.home_screen /\ ~call.media_playing /\ ~call.in_target_app

\* C2 witness: media plays on the home screen with the accumulated time at or
\* over the timeout, and no launch is decided.
C2_Witness ==
    /\ call.valid /\ call.home_screen /\ call.media_playing /\ ~call.in_target_app
    /\ call.in_idle + call.poll >= EffectiveTimeout(call.timeout)
    /\ ~call.should_launch

\* C3: on an idle-eligible call with a configured timeout, exactly poll is
\* added to idle_seconds and should_launch is true iff the sum is >= timeout;
\* below the timeout the sum is the new state, at or over it the new state is 0.
C3_AccumulateAndCompare ==
    (call.valid /\ call.idle_eligible /\ call.timeout # {}) =>
        LET sum == call.in_idle + call.poll
            t == EffectiveTimeout(call.timeout)
        IN  /\ call.should_launch <=> sum >= t
            /\ sum < t => call.out_idle = sum
            /\ sum >= t => call.out_idle = 0

\* C3 witness: accumulated progress plus the poll interval reaches the
\* timeout exactly, and the launch is decided.
C3_Witness ==
    /\ call.valid /\ call.idle_eligible /\ call.timeout # {}
    /\ call.in_idle > 0
    /\ call.in_idle + call.poll = EffectiveTimeout(call.timeout)
    /\ call.should_launch /\ call.out_idle = 0

\* C4: with no timeout (None) the effective timeout is 0: every idle-eligible
\* call returns should_launch = true, from any prior idle_seconds.
C4_NoTimeoutLaunchesAtOnce ==
    (call.valid /\ call.timeout = {} /\ call.idle_eligible) =>
        call.should_launch /\ call.out_idle = 0

\* C4 witness: an eligible call without timeout on a state with prior progress.
C4_Witness ==
    /\ call.valid /\ call.timeout = {} /\ call.idle_eligible
    /\ call.in_idle > 0 /\ call.should_launch

\* C5: when a call on an IdleState launched, the next call on it launches
\* only if idle_seconds, restarted from 0, reaches the timeout in that one
\* call (poll >= effective timeout); for a device, a launch on the tick after
\* a launch has the accumulated value at or over the timeout.
C5_NoRefireUntilReaccumulated ==
    /\ (call.valid /\ call.prev_launch) => call.in_idle = 0
    /\ (call.valid /\ call.prev_launch /\ call.should_launch) =>
          call.poll >= EffectiveTimeout(call.timeout)
    /\ (call.valid /\ call.prev_tick_launch /\ call.should_launch) =>
          call.in_idle + call.poll >= EffectiveTimeout(call.timeout)

\* C5 witness: the tick after a launch finds the device still idle-eligible
\* and decides no launch; the counter holds one poll interval.
C5_Witness ==
    /\ call.valid /\ call.prev_launch /\ call.prev_tick_launch
    /\ call.idle_eligible /\ ~call.should_launch
    /\ call.out_idle = call.poll

\* C6 as stated: for every valid configuration, two consecutive ticks of the
\* same device never both have should_launch = true.
C6_NeverTwoLaunchesInARow ==
    ~(call.valid /\ call.prev_tick_launch /\ call.should_launch)

\* The names of the device list are pairwise distinct.
DistinctNames ==
    \A i, j \in 1..Len(devices) : devices[i].name = devices[j].name => i = j

\* C6 amended: when the timeout is configured and greater than the poll
\* interval, two consecutive calls on one IdleState (two consecutive processed
\* ticks of a device whose name is unique) never both launch; when the
\* timeout is absent or at most the poll interval, every idle-eligible tick
\* launches.
C6_NoRepeatWhenTimeoutExceedsPoll ==
    call.valid =>
        /\ EffectiveTimeout(call.timeout) > call.poll =>
              /\ ~(call.prev_launch /\ call.should_launch)
              /\ DistinctNames => ~(call.prev_tick_launch /\ call.should_launch)
        /\ (EffectiveTimeout(call.timeout) <= call.poll /\ call.idle_eligible) =>
              call.should_launch

\* C6 witness: timeout greater than the poll interval, the device launched on
\* its previous tick and is idle-eligible again: no launch.
C6_Witness ==
    /\ call.valid /\ EffectiveTimeout(call.timeout) > call.poll
    /\ call.prev_tick_launch /\ call.prev_launch
    /\ call.idle_eligible /\ ~call.should_launch

PyNone == [t |-> "none", i |-> 0, s |-> "", l |-> <<>>]
PyInt(n) == [t |-> "int", i |-> n, s |-> "", l |-> <<>>]
PyStr(x) == [t |-> "str", i |-> 0, s |-> x, l |-> <<>>]
PyList(q) == [t |-> "list", i |-> 0, s |-> "", l |-> q]
PyDict(m) == [t |-> "dict", i |-> 0, s |-> "", l |-> <<m>>]
EmptyDict == [k \in {} |-> PyNone]

\* bool(v)
Truthy(v) ==
    CASE v.t = "none" -> FALSE
      [] v.t = "int" -> v.i # 0
      [] v.t = "str" -> v.s # ""
      [] v.t = "list" -> Len(v.l) > 0
      [] v.t = "dict" -> DOMAIN v.l[1] # {}

\* a or b
PyOr(a, b) == IF Truthy(a) THEN a ELSE b

\* str(v)
PyToStr(v) ==
    CASE v.t = "str" -> v.s
      [] v.t = "int" -> ToString(v.i)
      [] v.t = "none" -> "None"
      [] OTHER -> "<object>"

\* d.get(k, default) and d[k] = v
Get(d, k, default) == IF k \in DOMAIN d THEN d[k] ELSE default
Put(d, k, v) == [x \in DOMAIN d \cup {k} |-> IF x = k THEN v ELSE d[x]]

\* What a function returns (ok, val) or the ConfigError it raises (err).
Ok(v) == [ok |-> TRUE, err |-> "", val |-> v]
Fail(msg) == [ok |-> FALSE, err |-> msg, val |-> PyNone]

\* v = r, then the statements after it: a ConfigError raised by r ends the
\* function; With is the same for an r that cannot raise.
Then(r, rest(_)) == IF r.ok THEN rest(r.val) ELSE Fail(r.err)
With(v, rest(_)) == rest(v)

\* The strings int() accepts, with their values; every other string of the
\* model ("", "abc", host and package names) raises ValueError.
IntLiterals == {"0", "-1", "3", "7", "9", "60", "90", "1883", "1884", "5555", "5556"}
IntOf(x) ==
    CASE x = "0" -> 0 [] x = "-1" -> -1 [] x = "3" -> 3 [] x = "7" -> 7 [] x = "9" -> 9
      [] x = "60" -> 60 [] x = "90" -> 90 [] x = "1883" -> 1883 [] x = "1884" -> 1884
      [] x = "5555" -> 5555 [] x = "5556" -> 5556

\* str.strip() and str.upper() on the strings of the model
Strip(x) == IF x = " " THEN "" ELSE x
Upper(x) ==
    CASE x = "lr" -> "LR"
      [] x = "host" -> "HOST"
      [] x = "app" -> "APP"
      [] x = "adb_port" -> "ADB_PORT"
      [] x = "firestick_minder_device_" -> "FIRESTICK_MINDER_DEVICE_"
      [] OTHER -> x

\* _parse_int_env without the check of the sign
parse_int_env_any_sign(value, var_name) ==
    IF value.t = "none" THEN Ok(PyNone)
    ELSE IF value.s \notin IntLiterals THEN Fail(var_name \o " must be an integer")
    ELSE Ok(PyInt(IntOf(value.s)))

\* _parse_int_env
parse_int_env(value, var_name) ==
    IF value.t = "none" THEN Ok(PyNone)
    ELSE IF value.s \notin IntLiterals THEN Fail(var_name \o " must be an integer")
    ELSE IF IntOf(value.s) <= 0 THEN Fail(var_name \o " must be a positive integer")
    ELSE Ok(PyInt(IntOf(value.s)))

\* _parse_bool_env; the result is None, the int 1 (True) or the int 0 (False)
BoolWords == [true |-> {"1", "true", "yes", "on"}, false |-> {"0", "false", "no", "off"}]
Lower(x) == CASE x = "TRUE" -> "true" [] x = "False" -> "false" [] OTHER -> x
parse_bool_env(value) ==
    IF value.t = "none" THEN Ok(PyNone)
    ELSE IF Lower(Strip(value.s)) \in BoolWords.true THEN Ok(PyInt(1))
    ELSE IF Lower(Strip(value.s)) \in BoolWords.false THEN Ok(PyInt(0))
    ELSE Fail("Boolean env vars must be one of: 1, 0, true, false, yes, no, on, off")

\* ------------------------------------------------------------------------
\* CONFIGURATION (config.py): the environment
\* ------------------------------------------------------------------------

\* A variable name is the string pre, or pre + id + "_" + field when id is
\* not empty (FSM_DEVICE_ + 1 + _ + HOST); id holds no underscore.
Plain(name) == [pre |-> name, id |-> "", field |-> ""]
Key(pre, id, field) == [pre |-> pre, id |-> id, field |-> field]
KeyName(key) == IF key.id = "" THEN key.pre ELSE key.pre \o key.id \o "_" \o key.field

\* The ids matching \d+ with int() of them, the ids matching [A-Z0-9]+ under
\* re.IGNORECASE, and the fields matching [A-Z_]+.
DigitIds == {"1", "2", "01"}
IdInt(id) == CASE id = "1" -> 1 [] id = "01" -> 1 [] id = "2" -> 2
AlnumIds == {"LR", "lr", "BR", "1", "2", "01"}
UpperFields == {"HOST", "IP", "NAME", "IDLE_APP", "IDLE_TIMEOUT", "APP", "ADB_PORT"}

\* os.environ.get(name) / os.getenv(name)
EnvIndex(e, key) == {i \in 1..Len(e) : e[i].key = key}
getenv(e, name) ==
    IF EnvIndex(e, Plain(name)) = {} THEN PyNone
    ELSE PyStr(e[CHOOSE i \in EnvIndex(e, Plain(name)) : TRUE].value)

\* os.environ[key] = value (monkeypatch.setenv): a new key goes last, a key
\* already set keeps its place.
setenv(e, key, value) ==
    IF EnvIndex(e, key) = {} THEN Append(e, [key |-> key, value |-> value])
    ELSE [i \in 1..Len(e) |-> IF e[i].key = key THEN [key |-> key, value |-> value] ELSE e[i]]

\* sorted() of a set of ints, and of a set of device names (str order)
RECURSIVE SortedInts(_)
SortedInts(S) ==
    IF S = {} THEN <<>>
    ELSE LET m == CHOOSE x \in S : \A y \in S : x <= y
         IN  <<m>> \o SortedInts(S \ {m})
NameOrder == <<"1", "2", "BR", "LR", "den", "device_0", "device_1", "device_2">>
SortedNames(S) == SelectSeq(NameOrder, LAMBDA n : n \in S)

\* ------------------------------------------------------------------------
\* CONFIGURATION (config.py): devices from the environment
\* ------------------------------------------------------------------------

\* ^FIRESTICK_MINDER_DEVICE_([A-Z0-9]+)_(HOST|APP|ADB_PORT)$ with re.IGNORECASE
MatchesStructured(key) ==
    /\ Upper(key.pre) = "FIRESTICK_MINDER_DEVICE_"
    /\ key.id \in AlnumIds
    /\ Upper(key.field) \in {"HOST", "APP", "ADB_PORT"}

\* ^FSM_DEVICE_(\d+)_([A-Z_]+)$ or ^RUNNER_DEVICE_(\d+)_([A-Z_]+)$
MatchesIndexed(key) ==
    /\ key.pre \in {"FSM_DEVICE_", "RUNNER_DEVICE_"}
    /\ key.id \in DigitIds
    /\ key.field \in UpperFields

\* ^RUNNER_DEVICE_(\d+)_IDLE_TIMEOUT$
MatchesRunnerIdleTimeout(key) ==
    /\ key.pre = "RUNNER_DEVICE_"
    /\ key.id \in DigitIds
    /\ key.field = "IDLE_TIMEOUT"

\* build_devices_from_env, the loop over os.environ.items(): devices_raw after
\* the first n variables, or the ConfigError of an ADB_PORT value.
RECURSIVE StructuredRaw(_, _)
StructuredRaw(e, n) ==
    IF n = 0 THEN Ok(EmptyDict)
    ELSE LET prev == StructuredRaw(e, n - 1)
             key == e[n].key
             name == Upper(key.id)
             field == Upper(key.field)
             entry == Get(prev.val, name, ("name" :> PyStr(name)))
             port == parse_int_env(PyStr(e[n].value), KeyName(key))
         IN  IF ~prev.ok THEN prev
             ELSE IF ~MatchesStructured(key) THEN prev
             ELSE IF field = "HOST"
                  THEN Ok(Put(prev.val, name, Put(entry, "host", PyStr(e[n].value))))
             ELSE IF field = "APP"
                  THEN Ok(Put(prev.val, name, Put(entry, "app", PyStr(e[n].value))))
             ELSE IF ~port.ok THEN Fail(port.err)
             ELSE Ok(Put(prev.val, name, Put(entry, "adb_port", port.val)))

\* build_devices_from_env giving every device the port 5555
build_devices_from_env_default_port(e) ==
    LET raw == StructuredRaw(e, Len(e))
        names == SortedNames({n \in DOMAIN raw.val : "host" \in DOMAIN raw.val[n]})
    IN  IF ~raw.ok THEN raw
        ELSE Ok([i \in 1..Len(names) |->
                    Put(raw.val[names[i]], "adb_port", PyInt(5555))])

\* build_devices_from_env: the entries that have a host, sorted by name, with
\* adb_port defaulted to 5555.
build_devices_from_env(e) ==
    LET raw == StructuredRaw(e, Len(e))
        names == SortedNames({n \in DOMAIN raw.val : "host" \in DOMAIN raw.val[n]})
    IN  IF ~raw.ok THEN raw
        ELSE Ok([i \in 1..Len(names) |->
                    IF "adb_port" \in DOMAIN raw.val[names[i]]
                    THEN raw.val[names[i]]
                    ELSE Put(raw.val[names[i]], "adb_port", PyInt(5555))])

\* load_env_devices, the loop over os.environ.items(): devices_raw (index ->
\* fields) after the first n variables.
RECURSIVE IndexedRaw(_, _)
IndexedRaw(e, n) ==
    IF n = 0 THEN [k \in {} |-> EmptyDict]
    ELSE LET prev == IndexedRaw(e, n - 1)
             key == e[n].key
             i == IdInt(key.id)
             entry == Get(prev, i, EmptyDict)
         IN  IF ~MatchesIndexed(key) THEN prev
             ELSE IF key.field \in {"HOST", "IP"}
                  THEN Put(prev, i, Put(entry, "host", PyStr(e[n].value)))
             ELSE IF key.field = "NAME"
                  THEN Put(prev, i, Put(entry, "name", PyStr(e[n].value)))
             ELSE IF key.field = "IDLE_APP"
                  THEN Put(prev, i, Put(entry, "slideshow_component", PyStr(e[n].value)))
             ELSE Put(prev, i, entry)

\* load_env_devices: the indexes that have a host, in ascending order, named
\* device_<idx> when no NAME was given.
load_env_devices(e) ==
    LET raw == IndexedRaw(e, Len(e))
        idxs == SortedInts({i \in DOMAIN raw : "host" \in DOMAIN raw[i]})
    IN  [k \in 1..Len(idxs) |->
            IF "name" \in DOMAIN raw[idxs[k]] THEN raw[idxs[k]]
            ELSE Put(raw[idxs[k]], "name", PyStr("device_" \o ToString(idxs[k])))]

\* The RUNNER_DEVICES strings of the model, split as the parser splits them:
\* raw.split(","), entry.strip(), entry.split("=", 1) with name_part.strip(),
\* value_part.split(":", 1).
RunnerOne == "LR=192.168.30.71:5555"
RunnerTwo == "LR=192.168.30.71,BR=192.168.30.72:0, =192.168.30.73"
RunnerBad == "LR"
RunnerDup == "LR=192.168.30.71,LR=192.168.30.74"
RunnerEntry(text, has_eq, name, value_part, has_colon, host, port_part) ==
    [text |-> text, has_eq |-> has_eq, name |-> name, value_part |-> value_part,
     has_colon |-> has_colon, host |-> host, port_part |-> port_part]
RunnerSplit(raw) ==
    CASE raw = RunnerOne ->
           <<RunnerEntry("LR=192.168.30.71:5555", TRUE, "LR", "192.168.30.71:5555",
                         TRUE, "192.168.30.71", "5555")>>
      [] raw = RunnerTwo ->
           <<RunnerEntry("LR=192.168.30.71", TRUE, "LR", "192.168.30.71",
                         FALSE, "192.168.30.71", ""),
             RunnerEntry("BR=192.168.30.72:0", TRUE, "BR", "192.168.30.72:0",
                         TRUE, "192.168.30.72", "0"),
             RunnerEntry("=192.168.30.73", TRUE, "", "192.168.30.73",
                         FALSE, "192.168.30.73", "")>>
      [] raw = RunnerBad ->
           <<RunnerEntry("LR", FALSE, "", "", FALSE, "", "")>>
      [] raw = RunnerDup ->
           <<RunnerEntry("LR=192.168.30.71", TRUE, "LR", "192.168.30.71",
                         FALSE, "192.168.30.71", ""),
             RunnerEntry("LR=192.168.30.74", TRUE, "LR", "192.168.30.74",
                         FALSE, "192.168.30.74", "")>>
      [] OTHER -> <<>>

\* build_devices_from_runner_devices, the loop over the entries: the devices
\* after the first n entries.
RECURSIVE RunnerDevices(_, _)
RunnerDevices(entries, n) ==
    IF n = 0 THEN <<>>
    ELSE LET prev == RunnerDevices(entries, n - 1)
             entry == entries[n]
             port == parse_int_env(PyStr(entry.port_part),
                                   "RUNNER_DEVICES[" \o entry.name \o "]")
             dev(host, adb_port) ==
                 [k \in {"name", "host", "adb_port"} |->
                     IF k = "name" THEN PyStr(entry.name)
                     ELSE IF k = "host" THEN PyStr(host) ELSE adb_port]
         IN  IF entry.text = "" THEN prev
             ELSE IF ~entry.has_eq THEN prev
             ELSE IF entry.name = "" THEN prev
             ELSE IF entry.value_part = "" THEN prev
             ELSE IF ~entry.has_colon
                  THEN Append(prev, dev(entry.value_part, PyInt(5555)))
             ELSE IF entry.host = "" THEN prev
             ELSE IF entry.port_part = ""
                  THEN Append(prev, dev(entry.host, PyInt(5555)))
             ELSE IF ~port.ok THEN prev
             ELSE Append(prev, dev(entry.host, port.val))

build_devices_from_runner_devices(raw) ==
    IF raw = "" THEN <<>>
    ELSE RunnerDevices(RunnerSplit(raw), Len(RunnerSplit(raw)))

\* _first_runner_device_idle_timeout, the loop over os.environ.items(): the
\* lowest index seen in the first n variables (-1: none) and its value.
RECURSIVE FirstRunnerIdleTimeout(_, _)
FirstRunnerIdleTimeout(e, n) ==
    IF n = 0 THEN [first_match |-> -1, id |-> "", first_value |-> PyNone]
    ELSE LET prev == FirstRunnerIdleTimeout(e, n - 1)
             key == e[n].key
         IN  IF ~MatchesRunnerIdleTimeout(key) THEN prev
             ELSE IF prev.first_match = -1 \/ IdInt(key.id) < prev.first_match
                  THEN [first_match |-> IdInt(key.id), id |-> key.id,
                        first_value |-> PyStr(e[n].value)]
             ELSE prev

first_runner_device_idle_timeout(e) ==
    LET f == FirstRunnerIdleTimeout(e, Len(e))
    IN  IF f.first_match = -1
        THEN [value |-> PyNone, var_name |-> "FSM_IDLE_TIMEOUT"]
        ELSE [value |-> f.first_value,
              var_name |-> "RUNNER_DEVICE_" \o ToString(f.first_match) \o "_IDLE_TIMEOUT"]

\* ------------------------------------------------------------------------
\* CONFIGURATION (config.py): normalization
\* ------------------------------------------------------------------------

\* _DEF_HOME_PACKAGES
DEF_HOME_PACKAGES == {"com.amazon.tv.launcher", "com.amazon.firetv.launcher"}

\* _normalize_device without the check of slideshow_component
normalize_device_any_component(device, position) ==
    LET name == PyOr(Get(device, "name", PyNone), PyStr("device_" \o ToString(position)))
        host == Get(device, "host", PyNone)
        given == Get(device, "home_packages", PyList(<<>>))
        slideshow_component ==
            PyOr(Get(device, "slideshow_component", PyNone), Get(device, "app", PyNone))
        adb_port_raw == Get(device, "adb_port", PyInt(5555))
        adb_port ==
            IF adb_port_raw.t = "int" THEN Ok(adb_port_raw.i)
            ELSE IF adb_port_raw.t = "str" /\ adb_port_raw.s \in IntLiterals
                 THEN Ok(IntOf(adb_port_raw.s))
            ELSE Fail("Device " \o PyToStr(name) \o " has invalid adb_port")
    IN  IF ~Truthy(host) \/ host.t \notin {"str", "int"}
        THEN Fail("Device " \o PyToStr(name) \o " is missing a valid 'host' field")
        ELSE IF Truthy(given) /\ given.t # "list"
        THEN Fail("Device " \o PyToStr(name) \o " must have a non-empty 'home_packages' list")
        ELSE IF ~adb_port.ok THEN Fail(adb_port.err)
        ELSE IF adb_port.val <= 0
        THEN Fail("Device " \o PyToStr(name) \o " has invalid adb_port")
        ELSE Ok([name |-> PyToStr(name),
                 host |-> PyToStr(host),
                 home_packages |->
                     IF Truthy(given)
                     THEN {PyToStr(given.l[k]) : k \in 1..Len(given.l)}
                     ELSE DEF_HOME_PACKAGES,
                 slideshow_component |-> slideshow_component.s,
                 adb_port |-> adb_port.val])

\* _normalize_device(device, idx); position is idx
normalize_device(device, position) ==
    LET name == PyOr(Get(device, "name", PyNone), PyStr("device_" \o ToString(position)))
        host == Get(device, "host", PyNone)
        given == Get(device, "home_packages", PyList(<<>>))
        slideshow_component ==
            PyOr(Get(device, "slideshow_component", PyNone), Get(device, "app", PyNone))
        adb_port_raw == Get(device, "adb_port", PyInt(5555))
        adb_port ==
            IF adb_port_raw.t = "int" THEN Ok(adb_port_raw.i)
            ELSE IF adb_port_raw.t = "str" /\ adb_port_raw.s \in IntLiterals
                 THEN Ok(IntOf(adb_port_raw.s))
            ELSE Fail("Device " \o PyToStr(name) \o " has invalid adb_port")
    IN  IF ~Truthy(host) \/ host.t \notin {"str", "int"}
        THEN Fail("Device " \o PyToStr(name) \o " is missing a valid 'host' field")
        ELSE IF ~Truthy(slideshow_component) \/ slideshow_component.t # "str"
        THEN Fail("Device " \o PyToStr(name) \o " is missing 'slideshow_component'")
        ELSE IF Truthy(given) /\ given.t # "list"
        THEN Fail("Device " \o PyToStr(name) \o " must have a non-empty 'home_packages' list")
        ELSE IF ~adb_port.ok THEN Fail(adb_port.err)
        ELSE IF adb_port.val <= 0
        THEN Fail("Device " \o PyToStr(name) \o " has invalid adb_port")
        ELSE Ok([name |-> PyToStr(name),
                 host |-> PyToStr(host),
                 home_packages |->
                     IF Truthy(given)
                     THEN {PyToStr(given.l[k]) : k \in 1..Len(given.l)}
                     ELSE DEF_HOME_PACKAGES,
                 slideshow_component |-> slideshow_component.s,
                 adb_port |-> adb_port.val])

\* str.rstrip("/") on the topic prefixes of the model
RStripSlash(x) == IF x = "home/tv/" THEN "home/tv" ELSE x

\* normalize_mqtt without the check of host
normalize_mqtt_any_host(mqtt_cfg) ==
    LET host == Get(mqtt_cfg, "host", PyNone)
        port == Get(mqtt_cfg, "port", PyInt(1883))
        topic_prefix == Get(mqtt_cfg, "topic_prefix", PyStr("home/firestick"))
    IN  IF port.t # "int" \/ port.i <= 0
        THEN Fail("mqtt.port must be a positive integer")
        ELSE IF topic_prefix.t # "str" \/ topic_prefix.s = ""
        THEN Fail("mqtt.topic_prefix must be a non-empty string")
        ELSE Ok([k \in {"host", "port", "topic_prefix", "username", "password"} |->
                    CASE k = "host" -> host
                      [] k = "port" -> port
                      [] k = "topic_prefix" -> PyStr(RStripSlash(topic_prefix.s))
                      [] k = "username" -> Get(mqtt_cfg, "username", PyNone)
                      [] k = "password" -> Get(mqtt_cfg, "password", PyNone)])

\* _normalize_mqtt(mqtt_cfg)
normalize_mqtt(mqtt_cfg) ==
    LET host == Get(mqtt_cfg, "host", PyNone)
        port == Get(mqtt_cfg, "port", PyInt(1883))
        topic_prefix == Get(mqtt_cfg, "topic_prefix", PyStr("home/firestick"))
    IN  IF ~Truthy(host) \/ host.t # "str"
        THEN Fail("mqtt.host must be a non-empty string")
        ELSE IF port.t # "int" \/ port.i <= 0
        THEN Fail("mqtt.port must be a positive integer")
        ELSE IF topic_prefix.t # "str" \/ topic_prefix.s = ""
        THEN Fail("mqtt.topic_prefix must be a non-empty string")
        ELSE Ok([k \in {"host", "port", "topic_prefix", "username", "password"} |->
                    CASE k = "host" -> host
                      [] k = "port" -> port
                      [] k = "topic_prefix" -> PyStr(RStripSlash(topic_prefix.s))
                      [] k = "username" -> Get(mqtt_cfg, "username", PyNone)
                      [] k = "password" -> Get(mqtt_cfg, "password", PyNone)])

\* ------------------------------------------------------------------------
\* CONFIGURATION (config.py): _build_config, field by field
\* ------------------------------------------------------------------------

\* idle_app and idle_app_source
idle_app_field(yaml_config, e) ==
    LET yaml_idle_app ==
            PyOr(Get(yaml_config, "idle_app", PyNone), Get(yaml_config, "app", PyNone))
        env_idle_app == PyOr(getenv(e, "MINDER_APP"), getenv(e, "RUNNER_APP"))
        env_var_used ==
            IF Truthy(getenv(e, "MINDER_APP")) THEN "MINDER_APP" ELSE "RUNNER_APP"
    IN  IF /\ yaml_idle_app.t # "none"
           /\ (yaml_idle_app.t # "str" \/ Strip(yaml_idle_app.s) = "")
        THEN Fail("idle_app/app must be a non-empty string if provided")
        ELSE IF Truthy(env_idle_app)
        THEN Ok([idle_app |-> env_idle_app,
                 idle_app_source |-> "env " \o env_var_used,
                 env_used |-> TRUE])
        ELSE IF yaml_idle_app.t # "none"
        THEN Ok([idle_app |-> PyStr(Strip(yaml_idle_app.s)),
                 idle_app_source |-> "yaml", env_used |-> FALSE])
        ELSE Ok([idle_app |-> PyNone, idle_app_source |-> "default", env_used |-> FALSE])

\* poll_interval_field with the legacy variable consulted first
poll_interval_field_legacy(yaml_config, e) ==
    LET in_yaml == "poll_interval_seconds" \in DOMAIN yaml_config
        yaml_value == Get(yaml_config, "poll_interval_seconds", PyInt(5))
        fsm == getenv(e, "FSM_POLL_INTERVAL")
        runner == getenv(e, "RUNNER_POLL_SECONDS")
        env_poll_interval_value == IF runner.t = "none" THEN fsm ELSE runner
        poll_interval_var_name ==
            IF runner.t # "none" THEN "RUNNER_POLL_SECONDS" ELSE "FSM_POLL_INTERVAL"
        env_poll_interval == parse_int_env(env_poll_interval_value, poll_interval_var_name)
    IN  IF in_yaml /\ (yaml_value.t # "int" \/ yaml_value.i <= 0)
        THEN Fail("poll_interval_seconds must be a positive integer")
        ELSE IF ~env_poll_interval.ok THEN Fail(env_poll_interval.err)
        ELSE IF env_poll_interval.val.t # "none"
        THEN Ok([value |-> env_poll_interval.val.i, source |-> "env", env_used |-> TRUE])
        ELSE IF in_yaml
        THEN Ok([value |-> yaml_value.i, source |-> "yaml", env_used |-> FALSE])
        ELSE Ok([value |-> 5, source |-> "default", env_used |-> FALSE])

\* poll_interval_seconds and its source
poll_interval_field(yaml_config, e) ==
    LET in_yaml == "poll_interval_seconds" \in DOMAIN yaml_config
        yaml_value == Get(yaml_config, "poll_interval_seconds", PyInt(5))
        fsm == getenv(e, "FSM_POLL_INTERVAL")
        runner == getenv(e, "RUNNER_POLL_SECONDS")
        env_poll_interval_value == IF fsm.t = "none" THEN runner ELSE fsm
        poll_interval_var_name ==
            IF fsm.t = "none" /\ runner.t # "none"
            THEN "RUNNER_POLL_SECONDS" ELSE "FSM_POLL_INTERVAL"
        env_poll_interval == parse_int_env(env_poll_interval_value, poll_interval_var_name)
    IN  IF in_yaml /\ (yaml_value.t # "int" \/ yaml_value.i <= 0)
        THEN Fail("poll_interval_seconds must be a positive integer")
        ELSE IF ~env_poll_interval.ok THEN Fail(env_poll_interval.err)
        ELSE IF env_poll_interval.val.t # "none"
        THEN Ok([value |-> env_poll_interval.val.i, source |-> "env", env_used |-> TRUE])
        ELSE IF in_yaml
        THEN Ok([value |-> yaml_value.i, source |-> "yaml", env_used |-> FALSE])
        ELSE Ok([value |-> 5, source |-> "default", env_used |-> FALSE])

\* idle_timeout_field with the file's value preferred to the lowest
\* RUNNER_DEVICE_<n>_IDLE_TIMEOUT
idle_timeout_field_file_first(yaml_config, e) ==
    LET in_yaml == "idle_timeout_seconds" \in DOMAIN yaml_config
        yaml_value == Get(yaml_config, "idle_timeout_seconds", PyNone)
        fsm == getenv(e, "FSM_IDLE_TIMEOUT")
        runner == getenv(e, "RUNNER_IDLE_TIMEOUT")
        first == first_runner_device_idle_timeout(e)
        env_idle_timeout_value ==
            IF fsm.t # "none" THEN fsm
            ELSE IF runner.t # "none" THEN runner
            ELSE IF in_yaml /\ yaml_value.t # "none" THEN PyNone
            ELSE first.value
        idle_timeout_var_name ==
            IF fsm.t # "none" THEN "FSM_IDLE_TIMEOUT"
            ELSE IF runner.t # "none" THEN "RUNNER_IDLE_TIMEOUT"
            ELSE first.var_name
        idle_timeout_parsed == parse_int_env(env_idle_timeout_value, idle_timeout_var_name)
    IN  IF in_yaml /\ yaml_value.t # "none" /\ (yaml_value.t # "int" \/ yaml_value.i <= 0)
        THEN Fail("idle_timeout_seconds, if set, must be a positive integer")
        ELSE IF env_idle_timeout_value.t # "none"
        THEN IF ~idle_timeout_parsed.ok THEN Fail(idle_timeout_parsed.err)
             ELSE Ok([value |-> idle_timeout_parsed.val, source |-> "env",
                      env_used |-> TRUE])
        ELSE IF in_yaml /\ yaml_value.t # "none"
        THEN Ok([value |-> yaml_value, source |-> "yaml", env_used |-> FALSE])
        ELSE Ok([value |-> PyNone, source |-> "default", env_used |-> FALSE])

\* idle_timeout_seconds (None or an int) and its source
idle_timeout_field(yaml_config, e) ==
    LET in_yaml == "idle_timeout_seconds" \in DOMAIN yaml_config
        yaml_value == Get(yaml_config, "idle_timeout_seconds", PyNone)
        fsm == getenv(e, "FSM_IDLE_TIMEOUT")
        runner == getenv(e, "RUNNER_IDLE_TIMEOUT")
        first == first_runner_device_idle_timeout(e)
        env_idle_timeout_value ==
            IF fsm.t # "none" THEN fsm
            ELSE IF runner.t # "none" THEN runner
            ELSE first.value
        idle_timeout_var_name ==
            IF fsm.t # "none" THEN "FSM_IDLE_TIMEOUT"
            ELSE IF runner.t # "none" THEN "RUNNER_IDLE_TIMEOUT"
            ELSE first.var_name
        idle_timeout_parsed == parse_int_env(env_idle_timeout_value, idle_timeout_var_name)
    IN  IF in_yaml /\ yaml_value.t # "none" /\ (yaml_value.t # "int" \/ yaml_value.i <= 0)
        THEN Fail("idle_timeout_seconds, if set, must be a positive integer")
        ELSE IF env_idle_timeout_value.t # "none"
        THEN IF ~idle_timeout_parsed.ok THEN Fail(idle_timeout_parsed.err)
             ELSE Ok([value |-> idle_timeout_parsed.val, source |-> "env",
                      env_used |-> TRUE])
        ELSE IF in_yaml /\ yaml_value.t # "none"
        THEN Ok([value |-> yaml_value, source |-> "yaml", env_used |-> FALSE])
        ELSE Ok([value |-> PyNone, source |-> "default", env_used |-> FALSE])

\* log_level and its source
log_level_field(yaml_config, yaml_loaded, e) ==
    LET from_yaml ==
            IF yaml_loaded THEN PyToStr(Get(yaml_config, "log_level", PyStr("info")))
            ELSE "info"
        in_env == getenv(e, "FSM_LOG_LEVEL")
    IN  IF in_env.t # "none"
        THEN [value |-> in_env.s, source |-> "env", env_used |-> TRUE]
        ELSE [value |-> from_yaml,
              source |-> IF yaml_loaded /\ "log_level" \in DOMAIN yaml_config
                         THEN "yaml" ELSE "default",
              env_used |-> FALSE]

\* raw_devices_field with the file's devices consulted before the indexed
\* variables
raw_devices_field_file_first(yaml_devices_config, yaml_loaded, e, env_devices_structured, env_devices_indexed) ==
    LET runner_devices_raw == getenv(e, "RUNNER_DEVICES")
        runner_devices ==
            IF Truthy(runner_devices_raw)
            THEN build_devices_from_runner_devices(runner_devices_raw.s) ELSE <<>>
    IN  IF Len(env_devices_structured) > 0
        THEN [raw_devices |-> env_devices_structured, source |-> "structured_env",
              env_used |-> TRUE]
        ELSE IF yaml_loaded /\ Truthy(yaml_devices_config)
        THEN [raw_devices |-> yaml_devices_config.l, source |-> "yaml",
              env_used |-> FALSE]
        ELSE IF Len(env_devices_indexed) > 0
        THEN [raw_devices |-> env_devices_indexed, source |-> "env", env_used |-> TRUE]
        ELSE IF Len(runner_devices) > 0
        THEN [raw_devices |-> runner_devices, source |-> "runner_devices",
              env_used |-> TRUE]
        ELSE [raw_devices |-> <<>>, source |-> "default", env_used |-> FALSE]

\* The branch that chooses raw_devices: the first source that yields devices.
raw_devices_field(yaml_devices_config, yaml_loaded, e, env_devices_structured, env_devices_indexed) ==
    LET runner_devices_raw == getenv(e, "RUNNER_DEVICES")
        runner_devices ==
            IF Truthy(runner_devices_raw)
            THEN build_devices_from_runner_devices(runner_devices_raw.s) ELSE <<>>
    IN  IF Len(env_devices_structured) > 0
        THEN [raw_devices |-> env_devices_structured, source |-> "structured_env",
              env_used |-> TRUE]
        ELSE IF Len(env_devices_indexed) > 0
        THEN [raw_devices |-> env_devices_indexed, source |-> "env", env_used |-> TRUE]
        ELSE IF yaml_loaded /\ Truthy(yaml_devices_config)
        THEN [raw_devices |-> yaml_devices_config.l, source |-> "yaml",
              env_used |-> FALSE]
        ELSE IF Len(runner_devices) > 0
        THEN [raw_devices |-> runner_devices, source |-> "runner_devices",
              env_used |-> TRUE]
        ELSE [raw_devices |-> <<>>, source |-> "default", env_used |-> FALSE]

\* The body of `for idx, dev in enumerate(raw_devices)` up to _normalize_device.
device_copy(dev, idle_app) ==
    LET c1 == IF "slideshow_component" \notin DOMAIN dev /\ "app" \in DOMAIN dev
              THEN Put(dev, "slideshow_component", dev["app"]) ELSE dev
        c2 == IF Truthy(idle_app) /\ ~Truthy(Get(c1, "slideshow_component", PyNone))
              THEN Put(c1, "slideshow_component", idle_app) ELSE c1
    IN  IF "adb_port" \notin DOMAIN c2 THEN Put(c2, "adb_port", PyInt(5555)) ELSE c2

\* The loop over raw_devices: the normalized devices of the first n, or the
\* first ConfigError.
RECURSIVE NormalizedDevices(_, _, _)
NormalizedDevices(raw_devices, idle_app, n) ==
    IF n = 0 THEN Ok(<<>>)
    ELSE Then(NormalizedDevices(raw_devices, idle_app, n - 1), LAMBDA prev :
         Then(normalize_device(device_copy(raw_devices[n], idle_app), n - 1), LAMBDA this :
             Ok(Append(prev, this))))

NoDevicesMessage ==
    "Config error: no devices configured; set RUNNER_DEVICES or FIRESTICK_MINDER_DEVICE_<NAME>_HOST."

\* devices_field without the check for an empty device list
devices_field_empty(yaml_config, yaml_loaded, e, env_devices_structured, env_devices_indexed, idle_app) ==
    With(IF yaml_loaded THEN Get(yaml_config, "devices", PyList(<<>>)) ELSE PyList(<<>>),
         LAMBDA yaml_devices_config :
    IF yaml_loaded /\ Truthy(yaml_devices_config) /\ yaml_devices_config.t # "list"
    THEN Fail("devices must be a non-empty list")
    ELSE With(raw_devices_field(yaml_devices_config, yaml_loaded, e,
                                env_devices_structured, env_devices_indexed),
              LAMBDA chosen :
         Then(NormalizedDevices(chosen.raw_devices, idle_app, Len(chosen.raw_devices)),
              LAMBDA normalized :
             Ok([value |-> normalized, source |-> chosen.source,
                 env_used |-> chosen.env_used]))))

\* devices and their source
devices_field(yaml_config, yaml_loaded, e, env_devices_structured, env_devices_indexed, idle_app) ==
    With(IF yaml_loaded THEN Get(yaml_config, "devices", PyList(<<>>)) ELSE PyList(<<>>),
         LAMBDA yaml_devices_config :
    IF yaml_loaded /\ Truthy(yaml_devices_config) /\ yaml_devices_config.t # "list"
    THEN Fail("devices must be a non-empty list")
    ELSE With(raw_devices_field(yaml_devices_config, yaml_loaded, e,
                                env_devices_structured, env_devices_indexed),
              LAMBDA chosen :
         Then(NormalizedDevices(chosen.raw_devices, idle_app, Len(chosen.raw_devices)),
              LAMBDA normalized :
             IF Len(normalized) = 0 THEN Fail(NoDevicesMessage)
             ELSE Ok([value |-> normalized, source |-> chosen.source,
                      env_used |-> chosen.env_used]))))

\* The env overrides applied to mqtt_cfg before it is normalized again.
mqtt_overrides(base, env_mqtt_host, env_mqtt_port, env_mqtt_topic_prefix) ==
    With(IF Truthy(env_mqtt_host) THEN Put(base, "host", env_mqtt_host) ELSE base,
         LAMBDA b1 :
    With(IF env_mqtt_port.t # "none" THEN Put(b1, "port", env_mqtt_port) ELSE b1,
         LAMBDA b2 :
         IF Truthy(env_mqtt_topic_prefix)
         THEN Put(b2, "topic_prefix", env_mqtt_topic_prefix) ELSE b2))

\* mqtt_field with the disable flag yielding to a file mqtt section
mqtt_field_flag_yields(yaml_config, yaml_loaded, e) ==
    With(Get(yaml_config, "mqtt", PyNone), LAMBDA yaml_mqtt :
    IF yaml_loaded /\ yaml_mqtt.t \notin {"none", "dict"}
    THEN Fail("mqtt section must be a mapping if present")
    ELSE
    Then(IF yaml_loaded /\ yaml_mqtt.t = "dict"
         THEN With(normalize_mqtt(yaml_mqtt.l[1]),
                   LAMBDA n : IF n.ok THEN Ok(PyDict(n.val)) ELSE n)
         ELSE Ok(PyNone),
         LAMBDA mqtt_cfg :
    Then(parse_bool_env(getenv(e, "FSM_MQTT_ENABLED")), LAMBDA env_mqtt_enabled :
    With(getenv(e, "FSM_MQTT_HOST"), LAMBDA env_mqtt_host :
    Then(parse_int_env(getenv(e, "FSM_MQTT_PORT"), "FSM_MQTT_PORT"), LAMBDA env_mqtt_port :
    With(getenv(e, "FSM_MQTT_TOPIC_PREFIX"), LAMBDA env_mqtt_topic_prefix :
    With(\/ env_mqtt_enabled.t # "none"
         \/ env_mqtt_host.t # "none"
         \/ env_mqtt_port.t # "none"
         \/ env_mqtt_topic_prefix.t # "none",
         LAMBDA env_mqtt_fields_set :
    IF env_mqtt_enabled = PyInt(0) /\ mqtt_cfg.t = "none"
    THEN Ok([value |-> PyNone, source |-> "env_disabled",
             env_used |-> env_mqtt_fields_set])
    ELSE IF \/ env_mqtt_enabled = PyInt(1)
            \/ Truthy(env_mqtt_host)
            \/ Truthy(env_mqtt_port)
            \/ Truthy(env_mqtt_topic_prefix)
    THEN Then(normalize_mqtt(mqtt_overrides(
                  IF Truthy(mqtt_cfg) THEN mqtt_cfg.l[1] ELSE EmptyDict,
                  env_mqtt_host, env_mqtt_port, env_mqtt_topic_prefix)),
              LAMBDA normalized :
                  Ok([value |-> PyDict(normalized), source |-> "env",
                      env_used |-> env_mqtt_fields_set]))
    ELSE IF mqtt_cfg.t # "none"
    THEN Then(normalize_mqtt(mqtt_cfg.l[1]), LAMBDA normalized :
                  Ok([value |-> PyDict(normalized), source |-> "yaml",
                      env_used |-> env_mqtt_fields_set]))
    ELSE Ok([value |-> PyNone, source |-> "default",
             env_used |-> env_mqtt_fields_set]))))))))

\* mqtt (None or the normalized dict) and its source; mqtt_cfg is tagged, None
\* when the file gives no mqtt section.
mqtt_field(yaml_config, yaml_loaded, e) ==
    With(Get(yaml_config, "mqtt", PyNone), LAMBDA yaml_mqtt :
    IF yaml_loaded /\ yaml_mqtt.t \notin {"none", "dict"}
    THEN Fail("mqtt section must be a mapping if present")
    ELSE
    Then(IF yaml_loaded /\ yaml_mqtt.t = "dict"
         THEN With(normalize_mqtt(yaml_mqtt.l[1]),
                   LAMBDA n : IF n.ok THEN Ok(PyDict(n.val)) ELSE n)
         ELSE Ok(PyNone),
         LAMBDA mqtt_cfg :
    Then(parse_bool_env(getenv(e, "FSM_MQTT_ENABLED")), LAMBDA env_mqtt_enabled :
    With(getenv(e, "FSM_MQTT_HOST"), LAMBDA env_mqtt_host :
    Then(parse_int_env(getenv(e, "FSM_MQTT_PORT"), "FSM_MQTT_PORT"), LAMBDA env_mqtt_port :
    With(getenv(e, "FSM_MQTT_TOPIC_PREFIX"), LAMBDA env_mqtt_topic_prefix :
    With(\/ env_mqtt_enabled.t # "none"
         \/ env_mqtt_host.t # "none"
         \/ env_mqtt_port.t # "none"
         \/ env_mqtt_topic_prefix.t # "none",
         LAMBDA env_mqtt_fields_set :
    IF env_mqtt_enabled = PyInt(0)
    THEN Ok([value |-> PyNone, source |-> "env_disabled",
             env_used |-> env_mqtt_fields_set])
    ELSE IF \/ env_mqtt_enabled = PyInt(1)
            \/ Truthy(env_mqtt_host)
            \/ Truthy(env_mqtt_port)
            \/ Truthy(env_mqtt_topic_prefix)
    THEN Then(normalize_mqtt(mqtt_overrides(
                  IF Truthy(mqtt_cfg) THEN mqtt_cfg.l[1] ELSE EmptyDict,
                  env_mqtt_host, env_mqtt_port, env_mqtt_topic_prefix)),
              LAMBDA normalized :
                  Ok([value |-> PyDict(normalized), source |-> "env",
                      env_used |-> env_mqtt_fields_set]))
    ELSE IF mqtt_cfg.t # "none"
    THEN Then(normalize_mqtt(mqtt_cfg.l[1]), LAMBDA normalized :
                  Ok([value |-> PyDict(normalized), source |-> "yaml",
                      env_used |-> env_mqtt_fields_set]))
    ELSE Ok([value |-> PyNone, source |-> "default",
             env_used |-> env_mqtt_fields_set]))))))))

\* _build_config: the configuration it returns, or the first ConfigError in
\* the order the code evaluates.
build_config(yaml_config, yaml_loaded, config_path, e) ==
    Then(build_devices_from_env(e), LAMBDA env_devices_structured :
    With(load_env_devices(e), LAMBDA env_devices_indexed :
    Then(idle_app_field(yaml_config, e), LAMBDA app :
    Then(poll_interval_field(yaml_config, e), LAMBDA poll :
    Then(idle_timeout_field(yaml_config, e), LAMBDA timeout :
    With(log_level_field(yaml_config, yaml_loaded, e), LAMBDA log :
    Then(devices_field(yaml_config, yaml_loaded, e, env_devices_structured,
                       env_devices_indexed, app.idle_app),
         LAMBDA devs :
    Then(mqtt_field(yaml_config, yaml_loaded, e), LAMBDA mqtt :
        Ok([poll_interval_seconds |-> poll.value,
            idle_timeout_seconds |-> timeout.value,
            devices |-> devs.value,
            mqtt |-> mqtt.value,
            config_path |-> IF yaml_loaded /\ Truthy(config_path)
                            THEN config_path ELSE PyNone,
            sources |-> [poll_interval_seconds |-> poll.source,
                         idle_timeout_seconds |-> timeout.source,
                         log_level |-> log.source,
                         devices |-> devs.source,
                         idle_app |-> app.idle_app_source,
                         mqtt |-> mqtt.source],
            env_devices_count |->
                Len(env_devices_structured) + Len(env_devices_indexed),
            env_present |->
                \/ app.env_used \/ poll.env_used \/ timeout.env_used
                \/ log.env_used \/ devs.env_used \/ mqtt.env_used
                \/ Len(env_devices_structured) > 0
                \/ Len(env_devices_indexed) > 0
                \/ Truthy(getenv(e, "RUNNER_DEVICES")),
            log_level |-> log.value,
            idle_app |-> app.idle_app,
            idle_app_source |-> app.idle_app_source])))))))))

build_config_from_env_only(e) == build_config(EmptyDict, FALSE, PyNone, e)

build_config_from_yaml_and_env(yaml_config, config_path, e) ==
    build_config(yaml_config, TRUE, config_path, e)

\* load_config raising for a directory and for a missing file
load_config_needs_file(path, e, f) ==
    LET config_path_env == PyOr(path, getenv(e, "FIRESTICK_MINDER_CONFIG"))
        yaml_config == PyOr(f.doc, PyDict(EmptyDict))
    IN  IF ~Truthy(config_path_env) THEN build_config_from_env_only(e)
        ELSE IF f.kind # "file"
        THEN Fail("Config path " \o config_path_env.s \o " is not a regular file")
        ELSE IF ~f.parses THEN Fail("Failed to parse YAML config")
        ELSE IF yaml_config.t # "dict" THEN Fail("Top-level YAML config must be a mapping")
        ELSE build_config_from_yaml_and_env(yaml_config.l[1], config_path_env, e)

\* load_config(path); f is what the file system holds at the path: its kind
\* ("missing", "dir", "file", or "other" for a socket or device node), whether
\* yaml.safe_load parses it, and the document it parses to.
load_config(path, e, f) ==
    LET config_path_env == PyOr(path, getenv(e, "FIRESTICK_MINDER_CONFIG"))
        yaml_config == PyOr(f.doc, PyDict(EmptyDict))
    IN  IF ~Truthy(config_path_env) THEN build_config_from_env_only(e)
        ELSE IF f.kind = "dir" THEN build_config_from_env_only(e)
        ELSE IF f.kind = "missing" THEN build_config_from_env_only(e)
        ELSE IF f.kind # "file"
        THEN Fail("Config path " \o config_path_env.s \o " is not a regular file")
        ELSE IF ~f.parses THEN Fail("Failed to parse YAML config")
        ELSE IF yaml_config.t # "dict" THEN Fail("Top-level YAML config must be a mapping")
        ELSE build_config_from_yaml_and_env(yaml_config.l[1], config_path_env, e)

\* ------------------------------------------------------------------------
\* CONFIGURATION LOADING: the environment is set up, then load_config runs
\* ------------------------------------------------------------------------

\* how many variables the environment holds
MaxEnv == 3

ConfigPath == "/config/config.yml"
StructuredHost == "192.168.30.61"
IndexedHost == "192.168.30.62"
YamlHost == "192.168.30.63"

\* The YAML documents of the model.
YamlDevice ==
    [k \in {"name", "host", "slideshow_component"} |->
        CASE k = "name" -> PyStr("den")
          [] k = "host" -> PyStr(YamlHost)
          [] k = "slideshow_component" -> PyStr(TargetComponent)]
YamlFull ==
    [k \in {"poll_interval_seconds", "devices"} |->
        IF k = "devices" THEN PyList(<<YamlDevice>>) ELSE PyInt(3)]
YamlBadPoll == [k \in {"poll_interval_seconds"} |-> PyInt(0)]
YamlBadDevices == [k \in {"devices"} |-> PyStr("den")]

\* What the file system can hold at the configuration path.
File(kind, parses, doc) == [kind |-> kind, parses |-> parses, doc |-> doc]
Files ==
    {File("missing", TRUE, PyNone), File("dir", TRUE, PyNone),
     File("other", TRUE, PyNone), File("file", FALSE, PyNone),
     File("file", TRUE, PyNone), File("file", TRUE, PyList(<<PyStr("den")>>)),
     File("file", TRUE, PyDict(YamlFull)), File("file", TRUE, PyDict(YamlBadPoll)),
     File("file", TRUE, PyDict(YamlBadDevices))}

\* The variables the environment can hold, with their values.
EnvUniverse ==
    {<<Key("FIRESTICK_MINDER_DEVICE_", "LR", "HOST"), StructuredHost>>,
     <<Key("FIRESTICK_MINDER_DEVICE_", "LR", "APP"), TargetComponent>>,
     <<Key("FIRESTICK_MINDER_DEVICE_", "LR", "ADB_PORT"), "5556">>,
     <<Key("FIRESTICK_MINDER_DEVICE_", "LR", "ADB_PORT"), "abc">>,
     <<Key("FSM_DEVICE_", "1", "HOST"), IndexedHost>>,
     <<Key("RUNNER_DEVICE_", "1", "IDLE_APP"), TargetComponent>>,
     <<Plain("RUNNER_DEVICES"), RunnerOne>>,
     <<Plain("RUNNER_DEVICES"), RunnerBad>>,
     <<Plain("MINDER_APP"), TargetComponent>>,
     <<Plain("FSM_POLL_INTERVAL"), "7">>,
     <<Plain("FSM_POLL_INTERVAL"), "0">>,
     <<Plain("RUNNER_POLL_SECONDS"), "9">>,
     <<Plain("FIRESTICK_MINDER_CONFIG"), ConfigPath>>}

InitConfig ==
    /\ mode = "config"
    /\ devices = <<>>
    /\ poll_interval = 1
    /\ idle_timeout = {}
    /\ heap = <<>>
    /\ device_runtime = <<>>
    /\ pc = "load"
    /\ idx = 1
    /\ tick_launch = <<>>
    /\ last_launch = <<>>
    /\ call = NoCall
    /\ twin = NoCall
    /\ env = <<>>
    /\ file \in Files
    /\ result = [done |-> FALSE]
    /\ NoProcess

\* os.environ[key] = value before the program starts
SetEnv(key, value) ==
    /\ mode = "config"
    /\ ~result.done
    /\ EnvIndex(env, key) # {} \/ Len(env) < MaxEnv
    /\ \A i \in EnvIndex(env, key) : env[i].value # value
    /\ env' = setenv(env, key, value)
    /\ UNCHANGED <<mode, devices, poll_interval, idle_timeout, heap, device_runtime,
                   pc, idx, tick_launch, last_launch, call, twin, file, result, dvars>>

\* config = load_config(path)
LoadConfig(path) ==
    /\ mode = "config"
    /\ ~result.done
    /\ \E r \in {load_config(path, env, file)} :
          result' = [done |-> TRUE, path |-> path, ok |-> r.ok, err |-> r.err,
                     val |-> r.val]
    /\ UNCHANGED <<mode, devices, poll_interval, idle_timeout, heap, device_runtime,
                   pc, idx, tick_launch, last_launch, call, twin, env, file, dvars>>

NextConfig ==
    \/ \E kv \in EnvUniverse : SetEnv(kv[1], kv[2])
    \/ \E path \in {PyNone, PyStr(ConfigPath)} : LoadConfig(path)

SpecConfig == InitConfig /\ [][NextConfig]_vars

\* ------------------------------------------------------------------------
\* PROPERTIES of configuration loading
\* ------------------------------------------------------------------------

\* The inputs of the finished load_config call, read off the environment and
\* the file system.
YamlLoaded ==
    /\ Truthy(PyOr(result.path, getenv(env, "FIRESTICK_MINDER_CONFIG")))
    /\ file.kind = "file"
    /\ file.parses
    /\ file.doc.t \in {"none", "dict"}
YamlDoc == IF YamlLoaded /\ file.doc.t = "dict" THEN file.doc.l[1] ELSE EmptyDict
FileUnusable ==
    /\ Truthy(PyOr(result.path, getenv(env, "FIRESTICK_MINDER_CONFIG")))
    /\ \/ file.kind = "other"
       \/ file.kind = "file" /\ ~file.parses
       \/ file.kind = "file" /\ Truthy(file.doc) /\ file.doc.t # "dict"

\* The hosts each of the four sources names.
EnvKeys == {env[i].key : i \in 1..Len(env)}
StructuredHosts ==
    {env[i].value : i \in {j \in 1..Len(env) :
        MatchesStructured(env[j].key) /\ Upper(env[j].key.field) = "HOST"}}
IndexedHosts ==
    {env[i].value : i \in {j \in 1..Len(env) :
        MatchesIndexed(env[j].key) /\ env[j].key.field \in {"HOST", "IP"}}}
FileDevices == Get(YamlDoc, "devices", PyList(<<>>))
FileHosts ==
    IF FileDevices.t = "list"
    THEN {Get(FileDevices.l[i], "host", PyNone).s : i \in 1..Len(FileDevices.l)} ELSE {}
RunnerHosts ==
    IF Truthy(getenv(env, "RUNNER_DEVICES"))
    THEN LET ds == build_devices_from_runner_devices(getenv(env, "RUNNER_DEVICES").s)
         IN  {ds[i]["host"].s : i \in 1..Len(ds)}
    ELSE {}
ResultHosts == {result.val.devices[i].host : i \in 1..Len(result.val.devices)}
Loaded == mode = "config" /\ result.done

\* C8 as stated: if any structured FIRESTICK_MINDER_DEVICE_<NAME>_* variable
\* exists the structured variables supply the whole device list; otherwise,
\* if any indexed variable exists, the indexed variables do; otherwise the
\* file's devices list; otherwise RUNNER_DEVICES; never merged.
C8_AnyStructuredVariableWins ==
    (Loaded /\ result.ok) =>
        ResultHosts =
            IF \E k \in EnvKeys : MatchesStructured(k) THEN StructuredHosts
            ELSE IF \E k \in EnvKeys : MatchesIndexed(k) THEN IndexedHosts
            ELSE IF "devices" \in DOMAIN YamlDoc THEN FileHosts
            ELSE RunnerHosts

\* C8 (amended): the device list of a loaded configuration comes whole from
\* the first source, in the order structured variables, indexed variables,
\* file, RUNNER_DEVICES, that yields at least one device (an entry with a
\* host); variables of a source that carry no host yield no device and do not
\* stop the later sources; devices of other sources are never merged in, and
\* sources.devices names the source used.
C8_FirstYieldingSourceOnly ==
    (Loaded /\ result.ok) =>
        /\ ResultHosts =
            IF StructuredHosts # {} THEN StructuredHosts
            ELSE IF IndexedHosts # {} THEN IndexedHosts
            ELSE IF FileHosts # {} THEN FileHosts
            ELSE RunnerHosts
        /\ result.val.sources.devices =
            IF StructuredHosts # {} THEN "structured_env"
            ELSE IF IndexedHosts # {} THEN "env"
            ELSE IF FileHosts # {} THEN "yaml"
            ELSE "runner_devices"

\* A configuration loaded from indexed variables while the file and
\* RUNNER_DEVICES name devices too.
C8_Witness ==
    /\ Loaded /\ result.ok
    /\ StructuredHosts = {}
    /\ IndexedHosts # {} /\ FileHosts # {} /\ RunnerHosts # {}
    /\ ResultHosts = IndexedHosts

NoSourceYields ==
    StructuredHosts = {} /\ IndexedHosts = {} /\ FileHosts = {} /\ RunnerHosts = {}

\* The checks _build_config and load_config make before the device list is
\* looked at.
EarlierValidationFails ==
    \/ FileUnusable
    \/ ~build_devices_from_env(env).ok
    \/ ~idle_app_field(YamlDoc, env).ok
    \/ ~poll_interval_field(YamlDoc, env).ok
    \/ ~idle_timeout_field(YamlDoc, env).ok
    \/ YamlLoaded /\ Truthy(FileDevices) /\ FileDevices.t # "list"

\* C9 as stated: when none of the four sources yields a device (the file, if
\* one is read, is a mapping without a devices key), loading fails with the
\* ConfigError that says no devices are configured.
C9_NoDevicesAlwaysSaysSo ==
    (Loaded /\ NoSourceYields /\ ~FileUnusable /\ "devices" \notin DOMAIN YamlDoc) =>
        (~result.ok /\ result.err = NoDevicesMessage)

\* C9 (amended): when none of the four sources yields a device, loading always
\* fails with a ConfigError and never returns a configuration; the message is
\* the one saying no devices are configured exactly when no earlier check
\* (unusable file, structured ADB_PORT, idle_app, poll interval, idle timeout,
\* type of the file's devices) has failed. No loaded configuration has an empty
\* device list.
C9_NoDevicesFails ==
    /\ (Loaded /\ NoSourceYields) =>
          /\ ~result.ok
          /\ (result.err = NoDevicesMessage) <=> ~EarlierValidationFails
    /\ (Loaded /\ result.ok) => Len(result.val.devices) > 0

\* Loading failed for lack of devices although structured variables and
\* RUNNER_DEVICES are set.
C9_Witness ==
    /\ Loaded /\ NoSourceYields
    /\ \E k \in EnvKeys : MatchesStructured(k)
    /\ Truthy(getenv(env, "RUNNER_DEVICES"))
    /\ ~result.ok /\ result.err = NoDevicesMessage

\* C10: the poll interval of a loaded configuration is FSM_POLL_INTERVAL if
\* set, else RUNNER_POLL_SECONDS if set, else the file's
\* poll_interval_seconds, else 5, whatever supplied the other fields; a set
\* FSM_POLL_INTERVAL that is not a positive integer fails the load instead of
\* falling back.
C10_PollIntervalPrecedence ==
    /\ (Loaded /\ result.ok) =>
          /\ result.val.poll_interval_seconds =
                IF getenv(env, "FSM_POLL_INTERVAL").t # "none"
                THEN IntOf(getenv(env, "FSM_POLL_INTERVAL").s)
                ELSE IF getenv(env, "RUNNER_POLL_SECONDS").t # "none"
                THEN IntOf(getenv(env, "RUNNER_POLL_SECONDS").s)
                ELSE IF "poll_interval_seconds" \in DOMAIN YamlDoc
                THEN YamlDoc["poll_interval_seconds"].i
                ELSE 5
          /\ result.val.sources.poll_interval_seconds =
                IF \/ getenv(env, "FSM_POLL_INTERVAL").t # "none"
                   \/ getenv(env, "RUNNER_POLL_SECONDS").t # "none"
                THEN "env"
                ELSE IF "poll_interval_seconds" \in DOMAIN YamlDoc THEN "yaml"
                ELSE "default"
    /\ (Loaded /\ getenv(env, "FSM_POLL_INTERVAL") = PyStr("0")) => ~result.ok

\* A configuration loaded with all three of FSM_POLL_INTERVAL,
\* RUNNER_POLL_SECONDS and the file's poll_interval_seconds present.
C10_Witness ==
    /\ Loaded /\ result.ok
    /\ getenv(env, "FSM_POLL_INTERVAL") = PyStr("7")
    /\ getenv(env, "RUNNER_POLL_SECONDS") = PyStr("9")
    /\ "poll_interval_seconds" \in DOMAIN YamlDoc
    /\ result.val.poll_interval_seconds = 7

\* ------------------------------------------------------------------------
\* CONFIGURATION LOADING: the idle timeout
\* ------------------------------------------------------------------------

\* The state before load_config, with the file system holding one of `files`.
InitLoad(files) ==
    /\ mode = "config"
    /\ devices = <<>>
    /\ poll_interval = 1
    /\ idle_timeout = {}
    /\ heap = <<>>
    /\ device_runtime = <<>>
    /\ pc = "load"
    /\ idx = 1
    /\ tick_launch = <<>>
    /\ last_launch = <<>>
    /\ call = NoCall
    /\ twin = NoCall
    /\ env = <<>>
    /\ file \in files
    /\ result = [done |-> FALSE]
    /\ NoProcess

\* YAML documents with one device and an idle_timeout_seconds value.
YamlTimeout(value) ==
    [k \in {"idle_timeout_seconds", "devices"} |->
        IF k = "devices" THEN PyList(<<YamlDevice>>) ELSE value]
YamlDevicesOnly == [k \in {"devices"} |-> PyList(<<YamlDevice>>)]
TimeoutFiles ==
    {File("file", TRUE, PyDict(YamlDevicesOnly)),
     File("file", TRUE, PyDict(YamlTimeout(PyInt(3)))),
     File("file", TRUE, PyDict(YamlTimeout(PyNone))),
     File("file", TRUE, PyDict(YamlTimeout(PyInt(0))))}

\* The idle timeout variables, with their values.
TimeoutUniverse ==
    {<<Plain("FSM_IDLE_TIMEOUT"), "60">>,
     <<Plain("FSM_IDLE_TIMEOUT"), "0">>,
     <<Plain("RUNNER_IDLE_TIMEOUT"), "90">>,
     <<Key("RUNNER_DEVICE_", "1", "IDLE_TIMEOUT"), "7">>,
     <<Key("RUNNER_DEVICE_", "2", "IDLE_TIMEOUT"), "9">>,
     <<Key("RUNNER_DEVICE_", "01", "IDLE_TIMEOUT"), "3">>}

NextIdleTimeout ==
    \/ \E kv \in TimeoutUniverse : SetEnv(kv[1], kv[2])
    \/ \E path \in {PyNone, PyStr(ConfigPath)} : LoadConfig(path)

SpecIdleTimeout == InitLoad(TimeoutFiles) /\ [][NextIdleTimeout]_vars

\* The RUNNER_DEVICE_<n>_IDLE_TIMEOUT variables of the environment, and the
\* values of those with the lowest index.
DeviceTimeoutVars == {i \in 1..Len(env) : MatchesRunnerIdleTimeout(env[i].key)}
LowestDeviceTimeouts ==
    {IntOf(env[i].value) : i \in {j \in DeviceTimeoutVars :
        \A k \in DeviceTimeoutVars : IdInt(env[j].key.id) <= IdInt(env[k].key.id)}}

\* C11: the idle timeout of a loaded configuration is FSM_IDLE_TIMEOUT if set,
\* else RUNNER_IDLE_TIMEOUT if set, else the RUNNER_DEVICE_<n>_IDLE_TIMEOUT of
\* lowest index n, else the file's idle_timeout_seconds, else None.
C11_IdleTimeoutPrecedence ==
    (Loaded /\ result.ok) =>
        IF getenv(env, "FSM_IDLE_TIMEOUT").t # "none"
        THEN result.val.idle_timeout_seconds =
                PyInt(IntOf(getenv(env, "FSM_IDLE_TIMEOUT").s))
        ELSE IF getenv(env, "RUNNER_IDLE_TIMEOUT").t # "none"
        THEN result.val.idle_timeout_seconds =
                PyInt(IntOf(getenv(env, "RUNNER_IDLE_TIMEOUT").s))
        ELSE IF DeviceTimeoutVars # {}
        THEN /\ result.val.idle_timeout_seconds.t = "int"
             /\ result.val.idle_timeout_seconds.i \in LowestDeviceTimeouts
        ELSE result.val.idle_timeout_seconds =
                Get(YamlDoc, "idle_timeout_seconds", PyNone)

\* A configuration loaded with RUNNER_DEVICE_2_IDLE_TIMEOUT set before
\* RUNNER_DEVICE_1_IDLE_TIMEOUT and a file that gives a timeout too.
C11_Witness ==
    /\ Loaded /\ result.ok
    /\ Len(env) = 2
    /\ env[1].key = Key("RUNNER_DEVICE_", "2", "IDLE_TIMEOUT")
    /\ env[2].key = Key("RUNNER_DEVICE_", "1", "IDLE_TIMEOUT")
    /\ Get(YamlDoc, "idle_timeout_seconds", PyNone) = PyInt(3)
    /\ result.val.idle_timeout_seconds = PyInt(7)

\* ------------------------------------------------------------------------
\* CONFIGURATION LOADING: the idle app and the devices' components
\* ------------------------------------------------------------------------

MinderApp == "com.minder/.Main"
RunnerApp == "com.runner/.Main"
FileApp == "com.file/.Main"

\* Device mappings of a YAML devices list: without a component, with only
\* `app` next to an empty slideshow_component, and without a host.
YamlBare ==
    [k \in {"name", "host"} |-> IF k = "name" THEN PyStr("bare") ELSE PyStr(YamlHost)]
YamlAppOnly ==
    [k \in {"name", "host", "slideshow_component", "app"} |->
        CASE k = "name" -> PyStr("den")
          [] k = "host" -> PyStr(YamlHost)
          [] k = "slideshow_component" -> PyNone
          [] k = "app" -> PyStr(TargetComponent)]
YamlNoHost ==
    [k \in {"name", "slideshow_component"} |->
        IF k = "name" THEN PyStr("den") ELSE PyStr(TargetComponent)]

\* YAML documents: a global app under `key` (or none) and a devices list.
YamlApp(key, value, devs) ==
    [k \in {key, "devices"} |-> IF k = "devices" THEN PyList(devs) ELSE value]
AppFiles ==
    {File("missing", TRUE, PyNone),
     File("file", TRUE, PyDict(YamlApp("idle_app", PyStr(FileApp), <<YamlDevice, YamlBare>>))),
     File("file", TRUE, PyDict(YamlApp("app", PyStr(FileApp), <<YamlBare>>))),
     File("file", TRUE, PyDict(YamlApp("idle_app", PyStr(FileApp), <<YamlAppOnly>>))),
     File("file", TRUE, PyDict(YamlApp("idle_app", PyStr(" "), <<YamlDevice>>))),
     File("file", TRUE, PyDict(YamlApp("devices", PyNone, <<YamlBare>>))),
     File("file", TRUE, PyDict(YamlApp("devices", PyNone, <<YamlDevice, YamlNoHost>>)))}

\* The idle app variables and the device variables, with their values.
AppUniverse ==
    {<<Plain("MINDER_APP"), MinderApp>>,
     <<Plain("MINDER_APP"), "">>,
     <<Plain("RUNNER_APP"), RunnerApp>>,
     <<Key("FIRESTICK_MINDER_DEVICE_", "LR", "HOST"), StructuredHost>>,
     <<Key("FIRESTICK_MINDER_DEVICE_", "LR", "APP"), TargetComponent>>,
     <<Key("FIRESTICK_MINDER_DEVICE_", "BR", "APP"), TargetComponent>>,
     <<Key("FSM_DEVICE_", "1", "HOST"), IndexedHost>>,
     <<Key("FSM_DEVICE_", "2", "IDLE_APP"), TargetComponent>>}

NextIdleApp ==
    \/ \E kv \in AppUniverse : SetEnv(kv[1], kv[2])
    \/ \E path \in {PyNone, PyStr(ConfigPath)} : LoadConfig(path)

SpecIdleApp == InitLoad(AppFiles) /\ [][NextIdleApp]_vars

\* The device descriptions of the source that supplies the device list, in
\* the order of the list.
WinningRaw ==
    IF StructuredHosts # {} THEN build_devices_from_env(env).val
    ELSE IF IndexedHosts # {} THEN load_env_devices(env)
    ELSE IF FileHosts # {} THEN FileDevices.l
    ELSE IF Truthy(getenv(env, "RUNNER_DEVICES"))
    THEN build_devices_from_runner_devices(getenv(env, "RUNNER_DEVICES").s)
    ELSE <<>>

\* The global idle app the sources give: MINDER_APP, else RUNNER_APP, else the
\* file's idle_app or app, else None.
FileIdleApp == PyOr(Get(YamlDoc, "idle_app", PyNone), Get(YamlDoc, "app", PyNone))
GlobalIdleApp ==
    IF Truthy(getenv(env, "MINDER_APP")) THEN getenv(env, "MINDER_APP")
    ELSE IF Truthy(getenv(env, "RUNNER_APP")) THEN getenv(env, "RUNNER_APP")
    ELSE IF FileIdleApp.t = "str" THEN PyStr(Strip(FileIdleApp.s))
    ELSE PyNone

\* The component a device description specifies itself.
OwnComponent(raw) ==
    PyOr(Get(raw, "slideshow_component", PyNone), Get(raw, "app", PyNone))

\* C12: the global idle app of a loaded configuration is MINDER_APP, else
\* RUNNER_APP, else the file's idle_app or app, else none; every device that
\* specifies no component of its own gets the global one, and a device that
\* specifies one (slideshow_component or app) keeps it.
C12_GlobalIdleAppFillsGaps ==
    (Loaded /\ result.ok) =>
        /\ result.val.idle_app = GlobalIdleApp
        /\ Len(result.val.devices) = Len(WinningRaw)
        /\ \A i \in 1..Len(WinningRaw) :
              result.val.devices[i].slideshow_component =
                  IF Truthy(OwnComponent(WinningRaw[i]))
                  THEN OwnComponent(WinningRaw[i]).s
                  ELSE GlobalIdleApp.s

\* ------------------------------------------------------------------------
\* CONFIGURATION LOADING: telemetry (mqtt)
\* ------------------------------------------------------------------------

\* YAML documents with one device and an mqtt section: with a host, and with
\* a port only.
YamlMqttSection(with_host) ==
    IF with_host
    THEN [k \in {"host", "port"} |-> IF k = "host" THEN PyStr("file.broker") ELSE PyInt(1883)]
    ELSE [k \in {"port"} |-> PyInt(1883)]
YamlMqtt(with_host) ==
    [k \in {"mqtt", "devices"} |->
        IF k = "devices" THEN PyList(<<YamlDevice>>) ELSE PyDict(YamlMqttSection(with_host))]
MqttFiles ==
    {File("file", TRUE, PyDict(YamlDevicesOnly)),
     File("file", TRUE, PyDict(YamlMqtt(TRUE))),
     File("file", TRUE, PyDict(YamlMqtt(FALSE)))}

\* The FSM_MQTT_* variables, with their values.
MqttUniverse ==
    {<<Plain("FSM_MQTT_ENABLED"), "false">>,
     <<Plain("FSM_MQTT_ENABLED"), "true">>,
     <<Plain("FSM_MQTT_HOST"), "env.broker">>,
     <<Plain("FSM_MQTT_PORT"), "1884">>,
     <<Plain("FSM_MQTT_TOPIC_PREFIX"), "home/tv/">>}

NextMqtt ==
    \/ \E kv \in MqttUniverse : SetEnv(kv[1], kv[2])
    \/ \E path \in {PyNone, PyStr(ConfigPath)} : LoadConfig(path)

SpecMqtt == InitLoad(MqttFiles) /\ [][NextMqtt]_vars

\* What the sources say about telemetry.
FileMqtt == Get(YamlDoc, "mqtt", PyNone)
FileMqttHost == IF FileMqtt.t = "dict" THEN Get(FileMqtt.l[1], "host", PyNone) ELSE PyNone
FlagFalse ==
    /\ getenv(env, "FSM_MQTT_ENABLED").t = "str"
    /\ Lower(Strip(getenv(env, "FSM_MQTT_ENABLED").s)) \in BoolWords.false
FlagTrue ==
    /\ getenv(env, "FSM_MQTT_ENABLED").t = "str"
    /\ Lower(Strip(getenv(env, "FSM_MQTT_ENABLED").s)) \in BoolWords.true
NoMqttHost == ~Truthy(FileMqttHost) /\ ~Truthy(getenv(env, "FSM_MQTT_HOST"))
MqttHostMessage == "mqtt.host must be a non-empty string"

\* C13 as stated: when FSM_MQTT_ENABLED parses to false, the resolved
\* configuration has mqtt absent, whatever the file's mqtt section contains
\* and whatever the other FSM_MQTT_* variables are.
C13_FlagFalseAlwaysDisables ==
    (Loaded /\ YamlLoaded /\ FlagFalse) => (result.ok /\ result.val.mqtt = PyNone)

\* C13 (amended): when FSM_MQTT_ENABLED parses to false and the file's mqtt
\* section is absent or has a host, the configuration is returned with mqtt
\* absent (source env_disabled), whatever the section and the other
\* FSM_MQTT_* variables say; a file mqtt section without a host fails the
\* load with ConfigError even then, so no configuration is returned.
C13_FlagFalseDisablesValidFile ==
    (Loaded /\ YamlLoaded /\ FlagFalse) =>
        IF FileMqtt.t = "none" \/ Truthy(FileMqttHost)
        THEN /\ result.ok
             /\ result.val.mqtt = PyNone
             /\ result.val.sources.mqtt = "env_disabled"
        ELSE ~result.ok /\ result.err = MqttHostMessage

\* Loaded with the flag false while both the file and FSM_MQTT_HOST name a
\* broker.
C13_Witness ==
    /\ Loaded /\ YamlLoaded /\ FlagFalse
    /\ Truthy(FileMqttHost)
    /\ Truthy(getenv(env, "FSM_MQTT_HOST"))
    /\ result.ok /\ result.val.mqtt = PyNone

PathUnset == ~Truthy(PyOr(result.path, getenv(env, "FIRESTICK_MINDER_CONFIG")))
PathUnusable == PathUnset \/ file.kind \in {"missing", "dir"}

\* The ConfigErrors load_config raises about the file itself.
FileErrors ==
    {"Config path " \o ConfigPath \o " is not a regular file",
     "Failed to parse YAML config",
     "Top-level YAML config must be a mapping"}

\* The environment alone names a complete device and holds no value that
\* fails validation.
EnvAloneSuffices ==
    /\ StructuredHosts # {}
    /\ \/ Key("FIRESTICK_MINDER_DEVICE_", "LR", "APP") \in EnvKeys
       \/ Plain("MINDER_APP") \in EnvKeys
    /\ Key("FIRESTICK_MINDER_DEVICE_", "LR", "ADB_PORT") \notin EnvKeys
    /\ getenv(env, "FSM_POLL_INTERVAL") # PyStr("0")

\* C15: when the configuration path is unset, names a missing file or names a
\* directory, load_config never fails because of the path: it resolves from
\* the environment alone. A returned configuration has config_path None and
\* devices that all come from environment variables, nothing of the file is
\* used, and an environment that names a complete device always loads.
C15_EnvOnlyFallback ==
    (Loaded /\ PathUnusable) =>
        /\ result.err \notin FileErrors
        /\ ~YamlLoaded
        /\ result.ok =>
              /\ result.val.config_path = PyNone
              /\ result.val.devices # <<>>
              /\ result.val.sources.devices \in {"structured_env", "env", "runner_devices"}
              /\ ResultHosts \subseteq (StructuredHosts \cup IndexedHosts \cup RunnerHosts)
              /\ result.val.sources.poll_interval_seconds # "yaml"
        /\ EnvAloneSuffices => result.ok

\* load_config was given a path that names a directory and returned a
\* configuration built from the environment.
C15_Witness ==
    /\ Loaded
    /\ result.path = PyStr(ConfigPath)
    /\ file.kind = "dir"
    /\ result.ok
    /\ result.val.config_path = PyNone
    /\ Len(result.val.devices) = 1

\* ------------------------------------------------------------------------
\* CONFIGURATION LOADING: incomplete devices
\* ------------------------------------------------------------------------

\* The devices the environment describes without a host: names of structured
\* variables with no HOST variable, indexes of indexed variables with no HOST
\* or IP variable.
StructuredNames ==
    {Upper(env[i].key.id) : i \in {j \in 1..Len(env) : MatchesStructured(env[j].key)}}
StructuredWithHost ==
    {Upper(env[i].key.id) : i \in {j \in 1..Len(env) :
        MatchesStructured(env[j].key) /\ Upper(env[j].key.field) = "HOST"}}
IndexedIds ==
    {IdInt(env[i].key.id) : i \in {j \in 1..Len(env) :
        MatchesIndexed(env[j].key) /\ env[j].key.field \in {"HOST", "IP", "NAME", "IDLE_APP"}}}
IndexedWithHost ==
    {IdInt(env[i].key.id) : i \in {j \in 1..Len(env) :
        MatchesIndexed(env[j].key) /\ env[j].key.field \in {"HOST", "IP"}}}
HostlessInWinningEnv ==
    IF StructuredHosts # {} THEN StructuredNames # StructuredWithHost
    ELSE IF IndexedHosts # {} THEN IndexedIds # IndexedWithHost
    ELSE FALSE

\* A device description that reaches _normalize_device lacks a host, or lacks
\* a component while there is no global idle app to fill it in.
Incomplete(raw) ==
    \/ ~Truthy(Get(raw, "host", PyNone))
    \/ ~Truthy(OwnComponent(raw)) /\ ~Truthy(GlobalIdleApp)
IncompleteInWinningRaw == \E i \in 1..Len(WinningRaw) : Incomplete(WinningRaw[i])

\* The ConfigErrors raised before the devices are normalized.
IdleAppErrors == {"idle_app/app must be a non-empty string if provided"}

CustomLauncher == "com.custom.launcher"

\* A device mapping of a YAML devices list with its own home_packages and
\* adb_port, and YAML documents around it.
YamlCustom(adb_port) ==
    [k \in {"host", "slideshow_component", "home_packages", "adb_port"} |->
        CASE k = "host" -> PyStr(YamlHost)
          [] k = "slideshow_component" -> PyStr(TargetComponent)
          [] k = "home_packages" -> PyList(<<PyStr(CustomLauncher)>>)
          [] k = "adb_port" -> adb_port]
YamlEmptyPackages ==
    [k \in {"host", "app", "home_packages"} |->
        CASE k = "host" -> PyStr(YamlHost)
          [] k = "app" -> PyStr(TargetComponent)
          [] k = "home_packages" -> PyList(<<>>)]
YamlDevices(devs) == [k \in {"devices"} |-> PyList(devs)]
ResolvedFiles ==
    {File("missing", TRUE, PyNone),
     File("file", TRUE, PyDict(YamlFull)),
     File("file", TRUE, PyDict(YamlBadPoll)),
     File("file", TRUE, PyDict(YamlTimeout(PyInt(3)))),
     File("file", TRUE, PyDict(YamlTimeout(PyInt(0)))),
     File("file", TRUE, PyDict(YamlDevices(<<>>))),
     File("file", TRUE, PyDict(YamlDevices(<<YamlBare>>))),
     File("file", TRUE, PyDict(YamlDevices(<<YamlDevice, YamlNoHost>>))),
     File("file", TRUE, PyDict(YamlDevices(<<YamlCustom(PyInt(5556)), YamlEmptyPackages>>))),
     File("file", TRUE, PyDict(YamlDevices(<<YamlCustom(PyInt(0))>>))),
     File("file", TRUE, PyDict(YamlDevices(<<YamlCustom(PyStr("abc"))>>)))}

\* Variables of every setting a configuration carries, with good and bad
\* values.
ResolvedUniverse ==
    {<<Key("FIRESTICK_MINDER_DEVICE_", "LR", "HOST"), StructuredHost>>,
     <<Key("FIRESTICK_MINDER_DEVICE_", "LR", "HOST"), "">>,
     <<Key("FIRESTICK_MINDER_DEVICE_", "LR", "APP"), TargetComponent>>,
     <<Key("FIRESTICK_MINDER_DEVICE_", "LR", "ADB_PORT"), "5556">>,
     <<Key("FIRESTICK_MINDER_DEVICE_", "LR", "ADB_PORT"), "0">>,
     <<Key("FSM_DEVICE_", "1", "HOST"), IndexedHost>>,
     <<Plain("RUNNER_DEVICES"), RunnerOne>>,
     <<Plain("MINDER_APP"), MinderApp>>,
     <<Plain("FSM_POLL_INTERVAL"), "7">>,
     <<Plain("FSM_POLL_INTERVAL"), "-1">>,
     <<Plain("FSM_IDLE_TIMEOUT"), "60">>,
     <<Plain("FSM_IDLE_TIMEOUT"), "0">>}

NextResolved ==
    \/ \E kv \in ResolvedUniverse : SetEnv(kv[1], kv[2])
    \/ \E path \in {PyNone, PyStr(ConfigPath)} : LoadConfig(path)

SpecResolved == InitLoad(ResolvedFiles) /\ [][NextResolved]_vars

\* C17: every configuration load_config returns has at least one device; each
\* device has a non-empty host, a non-empty component, a non-empty set of home
\* packages (the two launcher packages when the description gives none) and a
\* port greater than zero (5555 when the description gives none); the poll
\* interval is a positive integer; the idle timeout is None or a positive
\* integer.
C17_ResolvedConfigInvariants ==
    (Loaded /\ result.ok) =>
        /\ result.val.devices # <<>>
        /\ Len(result.val.devices) = Len(WinningRaw)
        /\ \A i \in 1..Len(result.val.devices) :
              /\ result.val.devices[i].host # ""
              /\ result.val.devices[i].slideshow_component # ""
              /\ result.val.devices[i].home_packages # {}
              /\ ~Truthy(Get(WinningRaw[i], "home_packages", PyNone)) =>
                    result.val.devices[i].home_packages = DEF_HOME_PACKAGES
              /\ result.val.devices[i].adb_port \in Nat \ {0}
              /\ "adb_port" \notin DOMAIN WinningRaw[i] =>
                    result.val.devices[i].adb_port = 5555
        /\ result.val.poll_interval_seconds \in Nat \ {0}
        /\ \/ result.val.idle_timeout_seconds = PyNone
           \/ /\ result.val.idle_timeout_seconds.t = "int"
              /\ result.val.idle_timeout_seconds.i \in Nat \ {0}

\* A configuration was returned whose settings all come from explicit values:
\* the file's device with its own packages and port, the poll interval and
\* the idle timeout from the environment.
C17_Witness ==
    /\ Loaded /\ result.ok
    /\ Len(result.val.devices) = 2
    /\ result.val.devices[1].home_packages = {CustomLauncher}
    /\ result.val.devices[1].adb_port = 5556
    /\ result.val.devices[2].home_packages = DEF_HOME_PACKAGES
    /\ result.val.devices[2].adb_port = 5555
    /\ result.val.poll_interval_seconds = 7
    /\ result.val.idle_timeout_seconds = PyInt(60)

\* ------------------------------------------------------------------------
\* CONFIGURATION LOADING: device names
\* ------------------------------------------------------------------------

\* A second device of a YAML devices list that is also called den, and one
\* without a name; YAML documents with a global idle app and a devices list.
YamlTwin ==
    [k \in {"name", "host", "slideshow_component"} |->
        CASE k = "name" -> PyStr("den")
          [] k = "host" -> PyStr("192.168.30.64")
          [] k = "slideshow_component" -> PyStr(TargetComponent)]
YamlUnnamed == [k \in {"host"} |-> PyStr("192.168.30.65")]
NameFiles ==
    {File("file", TRUE, PyDict(YamlApp("idle_app", PyStr(FileApp), <<>>))),
     File("file", TRUE, PyDict(YamlApp("idle_app", PyStr(FileApp), <<YamlDevice, YamlBare>>))),
     File("file", TRUE, PyDict(YamlApp("idle_app", PyStr(FileApp), <<YamlDevice, YamlTwin>>))),
     File("file", TRUE, PyDict(YamlApp("idle_app", PyStr(FileApp), <<YamlBare, YamlUnnamed>>)))}

\* Variables that name devices, with their values.
NameUniverse ==
    {<<Key("FIRESTICK_MINDER_DEVICE_", "LR", "HOST"), StructuredHost>>,
     <<Key("FIRESTICK_MINDER_DEVICE_", "BR", "HOST"), "192.168.30.66">>,
     <<Key("FSM_DEVICE_", "1", "HOST"), IndexedHost>>,
     <<Key("FSM_DEVICE_", "2", "HOST"), "192.168.30.67">>,
     <<Key("FSM_DEVICE_", "1", "NAME"), "device_2">>,
     <<Key("FSM_DEVICE_", "1", "NAME"), "den">>,
     <<Plain("RUNNER_DEVICES"), RunnerTwo>>,
     <<Plain("RUNNER_DEVICES"), RunnerDup>>}

NextNames ==
    \/ \E kv \in NameUniverse : SetEnv(kv[1], kv[2])
    \/ \E path \in {PyNone, PyStr(ConfigPath)} : LoadConfig(path)

SpecNames == InitLoad(NameFiles) /\ [][NextNames]_vars

\* C18: in every configuration load_config returns the devices' names are
\* pairwise distinct, whichever source the devices come from.
C18_DeviceNamesDistinct ==
    (Loaded /\ result.ok) =>
        \A i, j \in 1..Len(result.val.devices) :
            i # j => result.val.devices[i].name # result.val.devices[j].name

\* ------------------------------------------------------------------------
\* MAIN LOOP: the devices' IdleStates
\* ------------------------------------------------------------------------

\* The IdleState main_loop uses for the device at position j, once it has one.
HasIdleState(j) == devices[j].name \in DOMAIN device_runtime
IdleStateOf(j) == heap[device_runtime[devices[j].name]]

\* One pass of the for loop handles the device at position idx.
PassOfLoop == mode = "loop" /\ pc = "for" /\ idx <= Len(devices) /\ idx' = idx + 1

\* C19: every device has an IdleState of its own: a pass of the loop for one
\* device leaves the IdleState of every other device of the configuration as
\* it was, for every configuration resolution accepts.
C19_IdleStatesIndependent ==
    [][PassOfLoop =>
          \A j \in (1..Len(devices)) \ {idx} :
              HasIdleState(j) =>
                  heap'[device_runtime'[devices[j].name]] = IdleStateOf(j)]_vars


\* ------------------------------------------------------------------------
\* MAIN LOOP: a device that cannot be reached
\* ------------------------------------------------------------------------

\* C20: when ensure_connected fails for a device (get-state or connect timed
\* out or was refused), the pass for that device makes no status query, no
\* update_idle_state call and no launch, and changes no existing IdleState;
\* the loop goes on with the next device of the list, and the next tick starts
\* again at the first device of the same list, so the device is tried again.
C20_ConnectivityFailureSkipsDevice ==
    [][/\ \A gs \in GetStates, cn \in Connects :
             DeviceNotConnected(gs, cn) =>
                 /\ call' = call
                 /\ \A r \in DOMAIN heap : heap'[r] = heap[r]
                 /\ \A r \in DOMAIN last_launch : last_launch'[r] = last_launch[r]
                 /\ tick_launch'[idx] = FALSE
                 /\ mode' = "loop" /\ pc' = "for"
                 /\ idx' = idx + 1
                 /\ devices' = devices
       /\ (mode = "loop" /\ pc = "sleep") =>
             (pc' = "for" /\ idx' = 1 /\ devices' = devices /\ heap' = heap)]_vars

\* The first device of two was not reachable in the first tick: it has an
\* IdleState, no update_idle_state call was ever made, and the loop stands at
\* the second device.
C20_Witness ==
    /\ mode = "loop" /\ pc = "for"
    /\ Len(devices) = 2
    /\ idx = 2
    /\ ~call.valid
    /\ Len(heap) = 1
    /\ heap[1] = 0


\* ------------------------------------------------------------------------
\* THE PROCESS (firestick_minder.py: main_loop, `while True` with its try /
\* except, the telemetry client and the sleeps)
\* ------------------------------------------------------------------------

\* a pass of the for loop takes no time or MaxStep
MaxStep == 2

\* max(a, b)
Max(a, b) == IF a >= b THEN a ELSE b

\* sleep_for = poll_interval for the argument of the sleep after a tick
sleep_for_whole(poll, elapsed) == poll

\* sleep_for = max(0.0, poll_interval - elapsed)
sleep_for(poll, elapsed) == Max(0, poll - elapsed)

\* mqtt_client_wrapper after the MQTT setup: None when config["mqtt"] is None
\* ("disabled"); else a wrapper whose .client is None (paho-mqtt missing or
\* connect() raised: "no_client") or a connected client ("client").
MqttClients == {"disabled", "no_client", "client"}

\* main_loop after the startup messages, before `while True`.
InitProcess(lists, clients, polls, timeouts) ==
    /\ mode = "process"
    /\ devices \in lists
    /\ poll_interval \in polls
    /\ idle_timeout \in timeouts
    /\ heap = <<>>
    /\ last_launch = <<>>
    /\ device_runtime = [n \in {} |-> 0]
    /\ pc = "top"
    /\ idx = 1
    /\ tick_launch = [i \in 1..Len(devices) |-> FALSE]
    /\ call = NoCall
    /\ twin = NoCall
    /\ NoConfigLoading
    /\ mqtt_client \in clients
    /\ timing = NoTiming
    /\ exit_status = "running"
    /\ published = <<>>
    /\ trace = NoTrace
    /\ obs = NoObs
    /\ streak = [i \in 1..Len(devices) |-> 0]

\* The count of idle-eligible ticks in a row stops at MaxStreak, which is more
\* than any number of ticks a timeout of the model takes.
MaxStreak == MaxTimeout + 1

\* What a tick without a completed idle-eligible pass leaves of the count of
\* idle-eligible ticks in a row: a count of 0 stands, any other is lost.
Lapse(n) == IF n = 0 THEN 0 ELSE -1

\* The record of a pass in the trace of the tick.
Pass(dev, connected, home_screen, in_target_app, media_playing, r) ==
    [dev |-> dev, connected |-> connected, home_screen |-> home_screen,
     in_target_app |-> in_target_app, media_playing |-> media_playing,
     out_idle |-> r.out_idle, should_launch |-> r.should_launch, launched |-> FALSE]

\* `while True: loop_started = time.time()` and the start of the for loop.
StartTick ==
    /\ mode = "process" /\ pc = "top"
    /\ pc' = "for"
    /\ idx' = 1
    /\ timing' = [timing EXCEPT !.elapsed = 0]
    /\ trace' = [heap |-> heap, device_runtime |-> device_runtime, passes |-> <<>>]
    /\ published' = <<>>
    /\ UNCHANGED <<mode, devices, poll_interval, idle_timeout, heap, last_launch,
                   device_runtime, tick_launch, call, twin, cvars,
                   mqtt_client, exit_status, obs, streak>>

\* A pass for a device that ensure_connected rejects, taking time d:
\* the IdleState is created if missing, then `continue`.
SkipDevice(get_state, connect, d) ==
    /\ mode = "process" /\ pc = "for" /\ idx <= Len(devices)
    /\ ~ensure_connected(get_state, connect)
    /\ \E sd \in {setdefault(device_runtime, heap, devices[idx].name)} :
          /\ device_runtime' = sd.runtime
          /\ heap' = sd.heap
          /\ last_launch' = IF Len(sd.heap) > Len(heap)
                             THEN Append(last_launch, FALSE) ELSE last_launch
          /\ trace' = [trace EXCEPT !.passes =
                Append(@, Pass(idx, FALSE, FALSE, FALSE, FALSE,
                               [out_idle |-> sd.heap[sd.ref], should_launch |-> FALSE]))]
    /\ tick_launch' = [tick_launch EXCEPT ![idx] = FALSE]
    /\ streak' = [streak EXCEPT ![idx] = Lapse(@)]
    /\ obs' = [valid |-> TRUE, dev |-> idx, get_state |-> get_state, connect |-> connect,
               queried |-> FALSE, win |-> AdbTimedOut, act |-> AdbTimedOut,
               media |-> AdbTimedOut]
    /\ timing' = [timing EXCEPT !.elapsed = @ + d]
    /\ idx' = idx + 1
    /\ UNCHANGED <<mode, devices, poll_interval, idle_timeout, pc, call, twin, cvars,
                   mqtt_client, exit_status, published>>

\* A pass for a connected device up to the print of the tick line, taking
\* time d: the two status queries and update_idle_state.
ObserveDevice(get_state, connect, win, act, media, d) ==
    /\ mode = "process" /\ pc = "for" /\ idx <= Len(devices)
    /\ ensure_connected(get_state, connect)
    /\ LET device == devices[idx]
           foreground_pkg == get_foreground_package(win, act)
           media_playing == is_media_playing(media)
           slideshow_pkg == SplitSlash(device.slideshow_component)[1]
           home_screen == foreground_pkg \in device.home_packages
           in_target_app == foreground_pkg = slideshow_pkg
           timeout == IF idle_timeout # {} THEN idle_timeout ELSE {}
           known == device.name \in DOMAIN device_runtime
       IN  \E sd \in {setdefault(device_runtime, heap, device.name)} :
           \E r \in {update_idle_state(sd.heap, sd.ref, home_screen, in_target_app,
                                       media_playing, poll_interval, timeout)} :
              /\ device_runtime' = sd.runtime
              /\ heap' = r.heap
              /\ last_launch' =
                     IF known THEN [last_launch EXCEPT ![sd.ref] = r.should_launch]
                     ELSE Append(last_launch, r.should_launch)
              /\ tick_launch' = [tick_launch EXCEPT ![idx] = r.should_launch]
              /\ call' = [valid |-> TRUE, dev |-> idx, state |-> sd.ref, ret |-> r.state,
                          in_idle |-> sd.heap[sd.ref],
                          out_idle |-> r.heap[r.state],
                          arg_idle |-> r.heap[sd.ref],
                          foreground |-> foreground_pkg,
                          home_screen |-> home_screen,
                          in_target_app |-> in_target_app,
                          media_playing |-> media_playing,
                          poll |-> poll_interval, timeout |-> timeout,
                          should_launch |-> r.should_launch,
                          idle_eligible |-> r.idle_eligible,
                          prev_launch |-> IF known THEN last_launch[sd.ref] ELSE FALSE,
                          prev_tick_launch |-> tick_launch[idx],
                          launch |-> NoLaunch]
              /\ trace' = [trace EXCEPT !.passes =
                    Append(@, Pass(idx, TRUE, home_screen, in_target_app, media_playing,
                                   [out_idle |-> r.heap[r.state],
                                    should_launch |-> r.should_launch]))]
              /\ streak' = [streak EXCEPT ![idx] =
                    IF r.idle_eligible /\ ~r.should_launch
                    THEN (IF @ < 0 THEN -1 ELSE IF @ < MaxStreak THEN @ + 1 ELSE @)
                    ELSE 0]
              /\ pc' = IF r.should_launch THEN "launch" ELSE "publish"
    /\ obs' = [valid |-> TRUE, dev |-> idx, get_state |-> get_state, connect |-> connect,
               queried |-> TRUE, win |-> win, act |-> act, media |-> media]
    /\ timing' = [timing EXCEPT !.elapsed = @ + d]
    /\ UNCHANGED <<mode, devices, poll_interval, idle_timeout, idx, twin, cvars,
                   mqtt_client, exit_status, published>>

\* `if should_launch: launch_slideshow(device)`
LaunchSlideshow ==
    /\ mode = "process" /\ pc = "launch"
    /\ call' = [call EXCEPT !.launch = launch_slideshow(devices[idx])]
    /\ trace' = [trace EXCEPT !.passes[Len(trace.passes)].launched = TRUE]
    /\ pc' = "publish"
    /\ UNCHANGED <<mode, devices, poll_interval, idle_timeout, heap, last_launch,
                   device_runtime, idx, tick_launch, twin, cvars,
                   mqtt_client, timing, exit_status, published, obs, streak>>

\* The snapshot of the device just processed.
Snapshot(raised) ==
    [dev |-> idx, name |-> devices[idx].name,
     idle_seconds |-> heap[device_runtime[devices[idx].name]],
     last_action |-> IF call.launch # NoLaunch
                     THEN "launched_target_from_idle" ELSE "none",
     raised |-> raised]

\* The telemetry step with an exception of client.publish leaving
\* publish_state: main_loop's `except Exception` ends the tick.
PublishState_propagates(raised) ==
    /\ mode = "process" /\ pc = "publish"
    /\ raised => mqtt_client = "client"
    /\ published' = IF mqtt_client = "client"
                    THEN Append(published, Snapshot(raised)) ELSE published
    /\ IF raised
       THEN /\ pc' = "cooldown"
            /\ timing' = [timing EXCEPT !.slept = poll_interval, !.after = "cooldown"]
            /\ idx' = idx
       ELSE /\ pc' = "for"
            /\ timing' = timing
            /\ idx' = idx + 1
    /\ UNCHANGED <<mode, devices, poll_interval, idle_timeout, heap, last_launch,
                   device_runtime, tick_launch, call, twin, cvars,
                   mqtt_client, exit_status, trace, obs, streak>>

\* The telemetry step publishing whenever config["mqtt"] is set, also through
\* a wrapper whose client is None.
PublishState_always(raised) ==
    /\ mode = "process" /\ pc = "publish"
    /\ raised => mqtt_client = "client"
    /\ published' = IF mqtt_client # "disabled"
                    THEN Append(published, Snapshot(raised)) ELSE published
    /\ pc' = "for"
    /\ idx' = idx + 1
    /\ UNCHANGED <<mode, devices, poll_interval, idle_timeout, heap, last_launch,
                   device_runtime, tick_launch, call, twin, cvars,
                   mqtt_client, timing, exit_status, trace, obs, streak>>

\* `if mqtt_client_wrapper is not None and topic_prefix is not None:
\* mqtt_client_wrapper.publish_state(...)`, then the next device.  With a
\* client, client.publish is called once; `raised` says that it raised, which
\* publish_state catches and prints.
PublishState(raised) ==
    /\ mode = "process" /\ pc = "publish"
    /\ raised => mqtt_client = "client"
    /\ published' = IF mqtt_client = "client"
                    THEN Append(published, Snapshot(raised)) ELSE published
    /\ pc' = "for"
    /\ idx' = idx + 1
    /\ UNCHANGED <<mode, devices, poll_interval, idle_timeout, heap, last_launch,
                   device_runtime, tick_launch, call, twin, cvars,
                   mqtt_client, timing, exit_status, trace, obs, streak>>

\* The for loop is exhausted: elapsed is measured and time.sleep(sleep_for)
\* is entered.
EndTick ==
    /\ mode = "process" /\ pc = "for" /\ idx > Len(devices)
    /\ pc' = "sleep"
    /\ timing' = [timing EXCEPT !.measured = timing.elapsed,
                                !.slept = sleep_for(poll_interval, timing.elapsed),
                                !.after = "sleep"]
    /\ UNCHANGED <<mode, devices, poll_interval, idle_timeout, heap, last_launch,
                   device_runtime, idx, tick_launch, call, twin, cvars,
                   mqtt_client, exit_status, published, trace, obs, streak>>

\* time.sleep returns (after a tick, or after a failed tick): back to
\* `while True`.  interval is the time since loop_started was taken.
WakeUp ==
    /\ mode = "process" /\ pc \in {"sleep", "cooldown"}
    /\ pc' = "top"
    /\ timing' = [timing EXCEPT !.interval = timing.elapsed + timing.slept]
    /\ UNCHANGED <<mode, devices, poll_interval, idle_timeout, heap, last_launch,
                   device_runtime, idx, tick_launch, call, twin, cvars,
                   mqtt_client, exit_status, published, trace, obs, streak>>

\* The handler of an unexpected exception sleeping what is left of the poll
\* interval.
TickError_remainder ==
    /\ mode = "process"
    /\ \/ pc = "for" /\ idx <= Len(devices)
       \/ pc = "launch"
    /\ pc' = "cooldown"
    /\ \E sd \in {setdefault(device_runtime, heap, devices[idx].name)} :
          /\ device_runtime' = sd.runtime
          /\ heap' = sd.heap
          /\ last_launch' = IF Len(sd.heap) > Len(heap)
                             THEN Append(last_launch, FALSE) ELSE last_launch
    /\ timing' = [timing EXCEPT !.slept = sleep_for(poll_interval, timing.elapsed),
                                !.after = "cooldown"]
    /\ streak' = [i \in 1..Len(devices) |->
                     IF i > idx \/ (i = idx /\ pc = "for") THEN Lapse(streak[i])
                     ELSE streak[i]]
    /\ UNCHANGED <<mode, devices, poll_interval, idle_timeout,
                   idx, tick_launch, call, twin, cvars,
                   mqtt_client, exit_status, published, trace, obs>>

\* An unexpected exception inside the try block: subprocess.run raising
\* OSError in ensure_connected or a status query (pc = "for") or in
\* launch_slideshow (pc = "launch").  The device's IdleState exists by then
\* (setdefault precedes every call that can raise).  `except Exception`
\* prints the error and enters time.sleep(poll_interval).
TickError ==
    /\ mode = "process"
    /\ \/ pc = "for" /\ idx <= Len(devices)
       \/ pc = "launch"
    /\ pc' = "cooldown"
    /\ \E sd \in {setdefault(device_runtime, heap, devices[idx].name)} :
          /\ device_runtime' = sd.runtime
          /\ heap' = sd.heap
          /\ last_launch' = IF Len(sd.heap) > Len(heap)
                             THEN Append(last_launch, FALSE) ELSE last_launch
    /\ timing' = [timing EXCEPT !.slept = poll_interval,
                                !.after = "cooldown"]
    /\ streak' = [i \in 1..Len(devices) |->
                     IF i > idx \/ (i = idx /\ pc = "for") THEN Lapse(streak[i])
                     ELSE streak[i]]
    /\ UNCHANGED <<mode, devices, poll_interval, idle_timeout,
                   idx, tick_launch, call, twin, cvars,
                   mqtt_client, exit_status, published, trace, obs>>

\* KeyboardInterrupt raised inside the try block (during a pass, before a
\* launch or a publish, or in the sleep after the tick): `except
\* KeyboardInterrupt` prints and breaks, main_loop returns, the script ends.
InterruptInTry ==
    /\ mode = "process"
    /\ pc \in {"for", "launch", "publish", "sleep"}
    /\ pc' = "exited"
    /\ exit_status' = "0"
    /\ UNCHANGED <<mode, devices, poll_interval, idle_timeout, heap, last_launch,
                   device_runtime, idx, tick_launch, call, twin, cvars,
                   mqtt_client, timing, published, trace, obs, streak>>

\* KeyboardInterrupt raised outside the try block: in `loop_started =
\* time.time()` or in the time.sleep(poll_interval) of the `except Exception`
\* handler.  Nothing catches it: the interpreter prints the traceback and the
\* process ends with a status that is not 0.
InterruptOutsideTry ==
    /\ mode = "process"
    /\ pc \in {"top", "cooldown"}
    /\ pc' = "exited"
    /\ exit_status' = "traceback"
    /\ UNCHANGED <<mode, devices, poll_interval, idle_timeout, heap, last_launch,
                   device_runtime, idx, tick_launch, call, twin, cvars,
                   mqtt_client, timing, published, trace, obs, streak>>

\* ------------------------------------------------------------------------
\* THE PROCESS: ticks, failed ticks and interrupts
\* ------------------------------------------------------------------------

\* What adb returns in these runs: a device is reachable or not, shows the
\* launcher or another app, and plays nothing.
FaultGetStates == {"ok", "timeout"}
FaultFocusDumps == {AdbOk(Launcher, FALSE), AdbOk(OtherPkg, FALSE)}

NextFaults ==
    \/ StartTick
    \/ \E gs \in FaultGetStates, d \in {0, MaxStep} : SkipDevice(gs, "failed", d)
    \/ \E gs \in FaultGetStates, win \in FaultFocusDumps, d \in {0, MaxStep} :
          ObserveDevice(gs, "failed", win, AdbTimedOut, AdbOk(NoPackage, FALSE), d)
    \/ LaunchSlideshow
    \/ \E raised \in BOOLEAN : PublishState(raised)
    \/ EndTick
    \/ WakeUp
    \/ TickError
    \/ InterruptInTry
    \/ InterruptOutsideTry

SpecFaults ==
    InitProcess({<<DevLR, DevBR>>}, {"disabled"}, 1..MaxPoll, {{}})
        /\ [][NextFaults]_vars

\* The same runs, with every time.sleep returning and the next
\* `while True` pass starting.
SpecFaultsLive == SpecFaults /\ WF_vars(WakeUp) /\ WF_vars(StartTick)

\* C21: an unexpected error raised within a tick does not end the process: it
\* is caught, the loop then sleeps the whole poll interval (not what the tick
\* left of it, and never zero), and after that sleep the next tick starts,
\* unless an interrupt ends the process first.
C21_FailedTickCoolsDown ==
    /\ [](pc = "cooldown" =>
            /\ exit_status = "running"
            /\ timing.after = "cooldown"
            /\ timing.slept = poll_interval
            /\ timing.slept > 0)
    /\ []((pc = "top" /\ timing.after = "cooldown") =>
            timing.interval = timing.elapsed + poll_interval)
    /\ [][pc = "cooldown" => pc' \in {"top", "exited"}]_vars
    /\ (pc = "cooldown") ~> (pc = "for" \/ pc = "exited")

\* A tick failed after it had already used up the poll interval; the loop has
\* slept the whole interval again and stands before the next tick.
C21_Witness ==
    /\ mode = "process" /\ pc = "top"
    /\ timing.after = "cooldown"
    /\ timing.elapsed >= poll_interval
    /\ timing.interval = timing.elapsed + poll_interval
    /\ exit_status = "running"

\* C22: an interrupt delivered at any point of the polling loop (during a
\* pass, in the sleep after a tick, or in the sleep after a failed tick) ends
\* the process with status 0.
C22_InterruptExitsCleanly ==
    (mode = "process" /\ pc = "exited") => exit_status = "0"

TelemetryMediaDumps == {AdbOk(NoPackage, FALSE), AdbOk(NoPackage, TRUE)}

NextTelemetry ==
    \/ StartTick
    \/ \E gs \in FaultGetStates : SkipDevice(gs, "failed", 0)
    \/ \E gs \in FaultGetStates, win \in FaultFocusDumps, media \in TelemetryMediaDumps :
          ObserveDevice(gs, "failed", win, AdbTimedOut, media, 0)
    \/ LaunchSlideshow
    \/ \E raised \in BOOLEAN : PublishState(raised)
    \/ EndTick
    \/ WakeUp

\* main_loop with each of the telemetry set-ups, ticks that do not fail.
SpecTelemetry ==
    InitProcess({<<DevLR, DevBR>>}, MqttClients, 1..MaxPoll, Timeouts)
        /\ [][NextTelemetry]_vars

\* The passes of a tick as the loop makes them when it has no telemetry at
\* all: from the heap h and device_runtime rt, passes k.. of the trace are
\* replayed with their observations; ok says that each recorded decision and
\* idle_seconds is the replayed one.
RECURSIVE Replay(_, _, _, _)
Replay(passes, k, h, rt) ==
    IF k > Len(passes) THEN [ok |-> TRUE, heap |-> h, runtime |-> rt]
    ELSE With(setdefault(rt, h, devices[passes[k].dev].name), LAMBDA sd :
         IF ~passes[k].connected
         THEN IF passes[k].should_launch \/ passes[k].launched
              THEN [ok |-> FALSE, heap |-> h, runtime |-> rt]
              ELSE Replay(passes, k + 1, sd.heap, sd.runtime)
         ELSE With(update_idle_state(sd.heap, sd.ref, passes[k].home_screen,
                                     passes[k].in_target_app, passes[k].media_playing,
                                     poll_interval, idle_timeout), LAMBDA r :
              IF /\ r.should_launch = passes[k].should_launch
                 /\ r.heap[r.state] = passes[k].out_idle
              THEN Replay(passes, k + 1, r.heap, sd.runtime)
              ELSE [ok |-> FALSE, heap |-> h, runtime |-> rt]))

\* Every pass of the trace but one still before its launch has issued the
\* launch exactly when the decision said so.
LaunchesFollowDecisions ==
    \A k \in 1..Len(trace.passes) :
        (k < Len(trace.passes) \/ pc # "launch") =>
            trace.passes[k].launched = trace.passes[k].should_launch

\* C24: telemetry never affects polling.  Whatever the telemetry set-up (none,
\* a connected client, a client that could not be set up at startup) and
\* whatever each publish does (sent, or raised), every idle_seconds and every
\* launch decision of a tick is the one the loop without telemetry computes
\* from the same observations; the telemetry step itself changes no IdleState
\* and always hands over to the next device, so no tick is aborted and no
\* later device is skipped.
C24_TelemetryNeverAffectsPolling ==
    /\ [](mode = "process" =>
            /\ pc # "cooldown"
            /\ exit_status = "running"
            /\ Replay(trace.passes, 1, trace.heap, trace.device_runtime) =
                   [ok |-> TRUE, heap |-> heap, runtime |-> device_runtime]
            /\ LaunchesFollowDecisions
            /\ pc = "for" => Len(trace.passes) = idx - 1
            /\ pc = "sleep" =>
                  /\ Len(trace.passes) = Len(devices)
                  /\ \A k \in 1..Len(devices) : trace.passes[k].dev = k)
    /\ [][pc = "publish" =>
            /\ heap' = heap
            /\ device_runtime' = device_runtime
            /\ call' = call
            /\ trace' = trace
            /\ pc' = "for"
            /\ idx' = idx + 1]_vars

\* A tick with a connected client in which the publish for the first device
\* raised, and the second device was still processed and launched.
C24_Witness ==
    /\ mode = "process" /\ pc = "sleep"
    /\ mqtt_client = "client"
    /\ Len(published) = 2
    /\ published[1].raised
    /\ trace.passes[2].connected
    /\ trace.passes[2].launched

\* The passes of the tick that got past ensure_connected and past the
\* telemetry step.
ProcessedPasses ==
    SelectSeq(trace.passes, LAMBDA p : p.connected /\ (p.dev < idx \/ pc = "sleep"))

\* published holds exactly one snapshot per processed pass, in order, with the
\* pass's idle_seconds and with last_action telling its launch decision.
OneSnapshotPerProcessedPass ==
    /\ Len(published) = Len(ProcessedPasses)
    /\ \A j \in 1..Len(published) :
          /\ published[j].dev = ProcessedPasses[j].dev
          /\ published[j].idle_seconds = ProcessedPasses[j].out_idle
          /\ published[j].last_action = "launched_target_from_idle"
                <=> ProcessedPasses[j].should_launch
          /\ published[j].last_action = "none"
                <=> ~ProcessedPasses[j].should_launch

NextQueries ==
    \/ StartTick
    \/ SkipDevice("timeout", "failed", 0)
    \/ \E win \in FocusDumps, media \in MediaDumps :
       \E act \in IF NeedsFallback(win) THEN FocusDumps ELSE {AdbTimedOut} :
          ObserveDevice("ok", "failed", win, act, media, 0)
    \/ LaunchSlideshow
    \/ PublishState(FALSE)
    \/ EndTick
    \/ WakeUp

\* main_loop for one device, the three dumps answering in every way (the
\* activity dump is only made when the window dump names no package).
SpecQueries ==
    InitProcess({<<DevLR>>}, {"disabled"}, 1..MaxPoll, Timeouts)
        /\ [][NextQueries]_vars

\* An adb call that failed: TimeoutExpired, the unauthorized marker in its
\* output, or a return code other than 0.
QueryFailed(proc) == proc.timed_out \/ proc.unauthorized \/ proc.returncode # 0

\* The pass whose dumps obs holds has made its update_idle_state call.
PassObserved ==
    /\ mode = "process" /\ pc \in {"launch", "publish"}
    /\ obs.valid /\ obs.queried /\ call.valid /\ obs.dev = call.dev

\* C26: a status query that fails (timed out, return code other than 0, or
\* the unauthorized marker) gives no foreground package, respectively
\* media_playing false, for the tick, and the tick goes on; with no
\* foreground package the device is not on the home screen and not in the
\* target app, so it is not idle-eligible, its idle_seconds becomes 0 and no
\* launch is issued.
C26_FailedQueryIsIndeterminate ==
    /\ mode = "process" => (pc # "cooldown" /\ exit_status = "running")
    /\ PassObserved =>
          /\ QueryFailed(obs.win) => call.foreground = NoPackage
          /\ (~QueryFailed(obs.win) /\ obs.win.focus = NoPackage /\ QueryFailed(obs.act))
                => call.foreground = NoPackage
          /\ QueryFailed(obs.media) => ~call.media_playing
          /\ call.foreground = NoPackage =>
                /\ ~call.home_screen
                /\ ~call.in_target_app
                /\ ~call.idle_eligible
                /\ ~call.should_launch
                /\ call.out_idle = 0
                /\ heap[call.state] = 0
                /\ call.launch = NoLaunch
                /\ pc = "publish"

\* The window dump ended with return code 1 although its output names the
\* launcher; the device had idle time, which the pass reset without a launch.
C26_Witness ==
    /\ PassObserved
    /\ obs.win = AdbFailed
    /\ obs.win.focus = Launcher
    /\ call.in_idle > 0
    /\ call.foreground = NoPackage
    /\ call.out_idle = 0
    /\ ~call.should_launch

\* ------------------------------------------------------------------------
\* CONFIGURATION LOADING: device variables of the environment
\* ------------------------------------------------------------------------

LowerHost == "192.168.30.68"
RunnerIp == "192.168.30.69"

\* Device variables of the structured and indexed schemes, among them two
\* spellings of one structured name and two indexed variables of one host,
\* with a global idle app and a poll interval.
DeviceEnvUniverse ==
    {<<Key("FIRESTICK_MINDER_DEVICE_", "LR", "HOST"), StructuredHost>>,
     <<Key("FIRESTICK_MINDER_DEVICE_", "LR", "APP"), TargetComponent>>,
     <<Key("FIRESTICK_MINDER_DEVICE_", "LR", "ADB_PORT"), "5556">>,
     <<Key("FIRESTICK_MINDER_DEVICE_", "LR", "ADB_PORT"), "0">>,
     <<Key("FIRESTICK_MINDER_DEVICE_", "LR", "ADB_PORT"), "abc">>,
     <<Key("FIRESTICK_MINDER_DEVICE_", "lr", "HOST"), LowerHost>>,
     <<Key("FIRESTICK_MINDER_DEVICE_", "lr", "APP"), RunnerApp>>,
     <<Key("FSM_DEVICE_", "1", "HOST"), IndexedHost>>,
     <<Key("RUNNER_DEVICE_", "1", "IP"), RunnerIp>>,
     <<Plain("MINDER_APP"), MinderApp>>,
     <<Plain("FSM_POLL_INTERVAL"), "7">>}

DeviceEnvFiles == {File("missing", TRUE, PyNone), File("file", TRUE, PyDict(YamlFull))}

NextDeviceEnv ==
    \/ \E kv \in DeviceEnvUniverse : SetEnv(kv[1], kv[2])
    \/ \E path \in {PyNone, PyStr(ConfigPath)} : LoadConfig(path)

SpecDeviceEnv == InitLoad(DeviceEnvFiles) /\ [][NextDeviceEnv]_vars

\* os.environ[key]
EnvValue(key) == env[CHOOSE i \in EnvIndex(env, key) : TRUE].value

\* The variables of the environment that describe devices.
DeviceKeys ==
    {k \in EnvKeys : MatchesStructured(k) \/ MatchesIndexed(k) \/ k = Plain("RUNNER_DEVICES")}

\* The environment holds FIRESTICK_MINDER_DEVICE_<id>_HOST and _APP, possibly
\* _ADB_PORT, and no other device variable.
StructuredPairOnly(id) ==
    /\ Key("FIRESTICK_MINDER_DEVICE_", id, "HOST") \in EnvKeys
    /\ Key("FIRESTICK_MINDER_DEVICE_", id, "APP") \in EnvKeys
    /\ DeviceKeys \subseteq {Key("FIRESTICK_MINDER_DEVICE_", id, f) : f \in {"HOST", "APP", "ADB_PORT"}}

\* C27: with FIRESTICK_MINDER_DEVICE_<NAME>_HOST=h and ..._APP=a set and no
\* other device variable, resolution gives exactly one device, named <NAME>
\* (in upper case), with host h, component a, and port 5555 unless
\* ..._ADB_PORT gives another positive port; it fails only for an ADB_PORT
\* that is not a positive integer.
C27_StructuredPairResolvesToOneDevice ==
    \A id \in {"LR", "lr"} :
        (Loaded /\ StructuredPairOnly(id)) =>
            LET port_key == Key("FIRESTICK_MINDER_DEVICE_", id, "ADB_PORT")
                port_ok == port_key \in EnvKeys =>
                              (EnvValue(port_key) \in IntLiterals /\ IntOf(EnvValue(port_key)) > 0)
            IN  /\ result.ok <=> port_ok
                /\ result.ok =>
                      /\ Len(result.val.devices) = 1
                      /\ result.val.devices[1].name = Upper(id)
                      /\ result.val.devices[1].host =
                             EnvValue(Key("FIRESTICK_MINDER_DEVICE_", id, "HOST"))
                      /\ result.val.devices[1].slideshow_component =
                             EnvValue(Key("FIRESTICK_MINDER_DEVICE_", id, "APP"))
                      /\ result.val.devices[1].adb_port =
                             IF port_key \in EnvKeys THEN IntOf(EnvValue(port_key)) ELSE 5555

\* LR_HOST, LR_APP and LR_ADB_PORT=5556 were set and the load gave the one
\* device LR on port 5556.
C27_Witness ==
    /\ Loaded /\ result.ok
    /\ StructuredPairOnly("LR")
    /\ Key("FIRESTICK_MINDER_DEVICE_", "LR", "ADB_PORT") \in EnvKeys
    /\ Len(result.val.devices) = 1
    /\ result.val.devices[1].name = "LR"
    /\ result.val.devices[1].host = StructuredHost
    /\ result.val.devices[1].slideshow_component = TargetComponent
    /\ result.val.devices[1].adb_port = 5556

\* C28: for a fixed file and a fixed set of environment name/value pairs the
\* resolved configuration is the same whatever the order in which os.environ
\* enumerates the variables.
C28_ResolutionIgnoresEnumerationOrder ==
    Loaded =>
        \A p \in Permutations(1..Len(env)) :
            /\ load_config(result.path, [i \in 1..Len(env) |-> env[p[i]]], file).ok = result.ok
            /\ load_config(result.path, [i \in 1..Len(env) |-> env[p[i]]], file).val = result.val

\* idle_seconds value n is 0, or below the configured timeout.
IdleBounded(n) ==
    /\ n >= 0
    /\ n = 0 \/ (idle_timeout # {} /\ n < EffectiveTimeout(idle_timeout))

\* C29: after every update_idle_state call idle_seconds is 0 or strictly
\* below the configured timeout, for any length of run; with no timeout
\* configured it is 0 after every call, and so is every idle_seconds the loop
\* prints or publishes.
C29_IdleSecondsBounded ==
    mode = "process" =>
        /\ \A i \in 1..Len(heap) : IdleBounded(heap[i])
        /\ (call.valid /\ pc \in {"launch", "publish"}) =>
              /\ call.timeout = idle_timeout
              /\ IdleBounded(call.out_idle)
              /\ heap[call.state] = call.out_idle
        /\ \A k \in 1..Len(trace.passes) :
              trace.passes[k].connected => IdleBounded(trace.passes[k].out_idle)
        /\ \A j \in 1..Len(published) : IdleBounded(published[j].idle_seconds)

\* With the timeout 3 and the poll interval 2 a call has left idle_seconds
\* 2, and that value was published.
C29_Witness ==
    /\ mode = "process" /\ pc = "for"
    /\ idle_timeout = {MaxTimeout}
    /\ call.valid
    /\ call.out_idle = MaxTimeout - 1
    /\ Len(published) >= 1
    /\ published[Len(published)].idle_seconds = MaxTimeout - 1

\* ------------------------------------------------------------------------
\* THE PROCESS: the period of the launches
\* ------------------------------------------------------------------------

NextPeriod ==
    \/ StartTick
    \/ SkipDevice("timeout", "failed", 0)
    \/ \E win \in FaultFocusDumps :
          ObserveDevice("ok", "failed", win, AdbTimedOut, AdbOk(NoPackage, FALSE), 0)
    \/ LaunchSlideshow
    \/ PublishState(FALSE)
    \/ EndTick
    \/ WakeUp
    \/ TickError

\* main_loop over two devices, with names that differ and with one name
\* twice, for every poll interval and timeout.
SpecPeriod ==
    InitProcess({<<DevLR, DevBR>>, <<DevLR, DevLR2>>}, {"disabled"}, 1..MaxPoll, Timeouts)
        /\ [][NextPeriod]_vars

\* The least k with k * poll_interval >= idle_timeout; 1 with no timeout.
LaunchPeriod ==
    IF idle_timeout = {} THEN 1
    ELSE CHOOSE k \in 1..MaxTimeout :
            /\ k * poll_interval >= EffectiveTimeout(idle_timeout)
            /\ \A j \in 1..(k - 1) : j * poll_interval < EffectiveTimeout(idle_timeout)

\* C30: while a device passes the connectivity check and is idle-eligible on
\* every tick and no tick fails, the pass that is the k-th in a row counted
\* from a zero counter, and no earlier one, decides to launch, k being the
\* least integer with k * poll interval >= timeout (1 with no timeout); the
\* launch resets the counter, so the same holds again every k ticks.
C30_LaunchEveryKthEligibleTick ==
    [][(mode = "process" /\ pc = "for" /\ pc' \in {"launch", "publish"}
            /\ streak[idx] >= 0 /\ call'.idle_eligible) =>
          /\ streak[idx] + 1 <= LaunchPeriod
          /\ call'.should_launch <=> streak[idx] + 1 = LaunchPeriod
          /\ call'.should_launch => pc' = "launch"]_vars

\* ------------------------------------------------------------------------
\* THE PROCESS: what a skipped pass and a failed tick leave of the IdleStates
\* ------------------------------------------------------------------------

\* main_loop over two devices, with names that differ and with one name
\* twice, with a connected telemetry client; passes are skipped and ticks
\* fail.
SpecFrame ==
    InitProcess({<<DevLR, DevBR>>, <<DevLR, DevLR2>>}, {"client"}, 1..MaxPoll, Timeouts)
        /\ [][NextPeriod]_vars

\* idle_seconds of the device at position k when the tick started and now
\* (0 while the device has no IdleState: setdefault creates it with 0).
IdleAtTickStart(k) ==
    IF devices[k].name \in DOMAIN trace.device_runtime
    THEN trace.heap[trace.device_runtime[devices[k].name]] ELSE 0
IdleNow(k) ==
    IF devices[k].name \in DOMAIN device_runtime
    THEN heap[device_runtime[devices[k].name]] ELSE 0

\* C31: a tick in which a device fails the connectivity check leaves that
\* device's idle_seconds as it was when the tick started, neither incremented
\* nor reset.
C31_SkippedTickKeepsIdleSeconds ==
    (mode = "process" /\ pc = "sleep") =>
        \A k \in 1..Len(trace.passes) :
            ~trace.passes[k].connected =>
                IdleNow(trace.passes[k].dev) = IdleAtTickStart(trace.passes[k].dev)

\* C32: when an unexpected error ends a tick while device idx is processed,
\* the devices after it have had no pass, no launch and no snapshot in the
\* tick and their idle_seconds is what it was when the tick started; the
\* devices before it hold the idle_seconds their update_idle_state call
\* produced; and when the error came after the call decided a launch, the
\* idle_seconds of device idx is already 0.
C32_FailedTickFrame ==
    (mode = "process" /\ pc = "cooldown") =>
        /\ Len(trace.passes) \in {idx - 1, idx}
        /\ \A k \in 1..Len(trace.passes) : trace.passes[k].dev = k
        /\ \A j \in 1..Len(published) : published[j].dev < idx
        /\ \A k \in (idx + 1)..Len(devices) : IdleNow(k) = IdleAtTickStart(k)
        /\ \A k \in 1..(idx - 1) :
              /\ trace.passes[k].connected => IdleNow(k) = trace.passes[k].out_idle
              /\ ~trace.passes[k].connected => IdleNow(k) = IdleAtTickStart(k)
        /\ Len(trace.passes) = idx =>
              /\ trace.passes[idx].should_launch
              /\ ~trace.passes[idx].launched
              /\ IdleNow(idx) = 0

====
